---------------------------- MODULE Spec2Model ----------------------------
(***************************************************************************)
(* A model of the EDA processor (apps/api/src/jobs/eda_processor.py): the  *)
(* table loader, the column type detector, the statistics, correlation,   *)
(* outlier and quality steps, run_full_analysis and apply_cleaning.        *)
(*                                                                         *)
(* A cell of a table is a record [k, n, s]: a finite number (k = "num",    *)
(* value n), a missing value (k = "nan"), an infinity (k = "inf", sign n)  *)
(* or a string (k = "str", text s, a sequence of characters).  A column is *)
(* [name, dtype, vals]; a table is [cols, index], index being the row      *)
(* labels of the DataFrame; a file is [ext, ok, table].  A number of a     *)
(* report is a record [k, num, den]: the rational num/den (k = "fin"), the *)
(* signed root sgn(num) * sqrt(|num| / den) (k = "sqrt"), not-a-number     *)
(* (k = "nan"), or a number that is finite whatever its value (a moment    *)
(* ratio, a p-value, an entropy).                                          *)
(***************************************************************************)
EXTENDS Integers, Sequences, FiniteSets, TLC

VARIABLES
    file,      \* the file at file_path: [ext, ok, table]
    df,        \* self.df of the processor: None or the loaded table
    result,    \* what the last call returned (None before any call)
    steps,     \* the steps of the processor the last call ran, in order
    options,   \* the options of the last apply_cleaning call
    saved,     \* the file written at save_path by the last apply_cleaning
    first,     \* the result of the apply_cleaning pass before the last one
    pc,        \* "new", "analyzed", "cleaned", "recleaned", "correlated"
    records,   \* the rows of the EDAResult table of the dataset version
    tasks,     \* the background tasks added so far: [eda_id, request, at]
    requests   \* the analyze requests so far: [force, loaded, at, response]

\* The state of the processor, and all of the state
processor == <<file, df, result, steps, options, saved, first, pc>>
vars == <<file, df, result, steps, options, saved, first, pc, records, tasks, requests>>

----------------------------------------------------------------------------
(* Cells, columns, tables *)

Num(i) == [k |-> "num", n |-> i, s |-> <<>>]
NaN == [k |-> "nan", n |-> 0, s |-> <<>>]
Inf(sign) == [k |-> "inf", n |-> sign, s |-> <<>>]
Str(t) == [k |-> "str", n |-> 0, s |-> t]

None == [none |-> TRUE]

\* An exception a call raises, in place of the value it would return
Raise(e) == [raised |-> e]
IsRaised(x) == "raised" \in DOMAIN x

\* df.columns, and df[c]
ColNames(t) == {t.cols[c].name : c \in 1..Len(t.cols)}
ColByName(t, c) == t.cols[CHOOSE i \in 1..Len(t.cols) : t.cols[i].name = c]

\* pandas' numeric dtypes among the ones the loader yields
IsNumericDtype(d) == d \in {"int64", "float64"}

\* The positions i with keep[i], in row order (a boolean mask applied)
PosWhere(keep) == SelectSeq([i \in 1..Len(keep) |-> i], LAMBDA i : keep[i])

\* The values of a sequence at the given positions
Take(vals, pos) == [i \in 1..Len(pos) |-> vals[pos[i]]]

\* The numbers of cells that are finite
NumbersOf(cells) == [i \in 1..Len(cells) |-> cells[i].n]

\* series.dropna(), and series[np.isfinite(series)] as numbers
NonNull(vals) == SelectSeq(vals, LAMBDA v : v.k # "nan")
FiniteValues(vals) == NumbersOf(SelectSeq(vals, LAMBDA v : v.k = "num"))

\* series.nunique(): the distinct non-missing values
NUnique(vals) == Cardinality({vals[i] : i \in {j \in 1..Len(vals) : vals[j].k # "nan"}})

\* The number of cells of a sequence equal to x
CountOf(s, x) == Cardinality({i \in 1..Len(s) : s[i] = x})

----------------------------------------------------------------------------
(* Numbers of a report *)

Fin(num, den) == [k |-> "fin", num |-> num, den |-> den]
Sqrt(num, den) == [k |-> "sqrt", num |-> num, den |-> den]
NanNum == [k |-> "nan", num |-> 0, den |-> 1]

Abs(i) == IF i < 0 THEN -i ELSE i
Sign(i) == IF i < 0 THEN -1 ELSE IF i > 0 THEN 1 ELSE 0

RECURSIVE Gcd(_, _)
Gcd(a, b) == IF b = 0 THEN a ELSE Gcd(b, a % b)

RECURSIVE SumSeq(_)
SumSeq(s) == IF s = <<>> THEN 0 ELSE Head(s) + SumSeq(Tail(s))

\* sum of dx * dy over two sequences of one length
SumProd(dx, dy) == SumSeq([i \in 1..Len(dx) |-> dx[i] * dy[i]])

\* c / sqrt(den) as sgn(c) * sqrt(c * c / den), the fraction in lowest terms
SignedRoot(c, den) ==
    Sqrt((Sign(c) * c * c) \div Gcd(c * c, den), den \div Gcd(c * c, den))

\* n * x[i] - total: the deviations of a sample from its mean, times n
Devs(xs) == [i \in 1..Len(xs) |-> Len(xs) * xs[i] - SumSeq(xs)]

\* A sequence of integers in non-decreasing order (the order a quantile reads)
RECURSIVE SortInts(_)
SortInts(s) ==
    IF s = <<>> THEN <<>>
    ELSE SortInts(SelectSeq(Tail(s), LAMBDA x : x < Head(s)))
         \o <<Head(s)>>
         \o SortInts(SelectSeq(Tail(s), LAMBDA x : x >= Head(s)))

\* Series.quantile(a / 4), times 4, of a sorted non-empty sample x: the linear
\* interpolation between the two values around position (n - 1) * a / 4
Quantile4(x, a) ==
    4 * x[(((Len(x) - 1) * a) \div 4) + 1]
    + (IF ((Len(x) - 1) * a) % 4 = 0 THEN 0
       ELSE (((Len(x) - 1) * a) % 4)
            * (x[(((Len(x) - 1) * a) \div 4) + 2] - x[(((Len(x) - 1) * a) \div 4) + 1]))

\* Bounds one IQR, not one and a half, away from the quartiles, times 8
BoundsOneIqr(x) ==
    [lower |-> 2 * Quantile4(x, 1) - 2 * (Quantile4(x, 3) - Quantile4(x, 1)),
     upper |-> 2 * Quantile4(x, 3) + 2 * (Quantile4(x, 3) - Quantile4(x, 1))]

\* lower = q1 - 1.5 * iqr and upper = q3 + 1.5 * iqr, times 8, of a sorted
\* non-empty sample x
IqrBounds(x) ==
    [lower |-> 2 * Quantile4(x, 1) - 3 * (Quantile4(x, 3) - Quantile4(x, 1)),
     upper |-> 2 * Quantile4(x, 3) + 3 * (Quantile4(x, 3) - Quantile4(x, 1))]

\* (data < lower) | (data > upper) for one finite value
IsIqrOutlier(x, b) == 8 * x < b.lower \/ 8 * x > b.upper

----------------------------------------------------------------------------
(* Text: a string is a sequence of one-character strings *)

Digits == <<"0", "1", "2", "3", "4", "5", "6", "7", "8", "9">>
DigitVal(ch) == (CHOOSE d \in 1..10 : Digits[d] = ch) - 1

\* str.strip(): leading and trailing whitespace removed
RECURSIVE Strip(_)
Strip(t) ==
    IF t # <<>> /\ Head(t) \in {" ", "\t", "\n"} THEN Strip(Tail(t))
    ELSE IF t # <<>> /\ t[Len(t)] \in {" ", "\t", "\n"} THEN Strip(SubSeq(t, 1, Len(t) - 1))
    ELSE t

\* str(i) of an integer
RECURSIVE IntChars(_)
IntChars(i) ==
    IF i < 0 THEN <<"-">> \o IntChars(-i)
    ELSE IF i < 10 THEN <<Digits[i + 1]>>
    ELSE IntChars(i \div 10) \o <<Digits[(i % 10) + 1]>>

\* astype(str) of one cell: a missing value reads "nan", a float reads "1.0"
AsStr(v, dtype) ==
    CASE v.k = "str" -> v.s
      [] v.k = "nan" -> <<"n", "a", "n">>
      [] v.k = "inf" -> IF v.n < 0 THEN <<"-", "i", "n", "f">> ELSE <<"i", "n", "f">>
      [] OTHER -> IF dtype = "int64" THEN IntChars(v.n) ELSE IntChars(v.n) \o <<".", "0">>

\* The two digits of a text at positions i and i + 1, as a number
TwoDigits(t, i) == 10 * DigitVal(t[i]) + DigitVal(t[i + 1])

\* pd.to_datetime(v) succeeds for one non-missing cell of an object column:
\* among the texts of the model, for an ISO date YYYY-MM-DD with a month
\* 01..12 and a day 01..31
ParsesAsDatetime(v) ==
    /\ v.k = "str"
    /\ Len(v.s) = 10
    /\ v.s[5] = "-" /\ v.s[8] = "-"
    /\ \A i \in {1, 2, 3, 4, 6, 7, 9, 10} : \E d \in 1..10 : Digits[d] = v.s[i]
    /\ TwoDigits(v.s, 6) \in 1..12
    /\ TwoDigits(v.s, 9) \in 1..31

\* Days since 1970-01-01 of the day d of the month mp (counted from March) of
\* the year y (a year that starts in March), proleptic Gregorian
DaysFromCivil(y, mp, d) ==
    (y \div 400) * 146097
    + (y % 400) * 365 + (y % 400) \div 4 - (y % 400) \div 100
    + (153 * mp + 2) \div 5 + d - 1 - 719468

\* The day number of the timestamp of an ISO date
DayNumber(t) ==
    DaysFromCivil(100 * TwoDigits(t, 1) + TwoDigits(t, 3)
                      - (IF TwoDigits(t, 6) <= 2 THEN 1 ELSE 0),
                  (TwoDigits(t, 6) + 9) % 12,
                  TwoDigits(t, 9))

----------------------------------------------------------------------------
(* Column type detector *)

CategoricalMaxUnique == 50
TextMinAvgLength == 50

\* _detect_single_column_type without the return that ends it
DetectNoDefault(col) ==
    IF Len(NonNull(col.vals)) = 0 THEN "empty"
    ELSE IF IsNumericDtype(col.dtype) THEN
        IF col.dtype = "int64"
            /\ 2 * NUnique(col.vals) < Len(col.vals)
            /\ NUnique(col.vals) < CategoricalMaxUnique
        THEN "categorical"
        ELSE "numeric"
    ELSE IF \A i \in 1..Len(col.vals) : col.vals[i].k = "nan" \/ ParsesAsDatetime(col.vals[i])
    THEN "datetime"
    ELSE IF 2 * NUnique(col.vals) < Len(col.vals) THEN "categorical"
    ELSE IF col.dtype = "object"
            /\ SumSeq([i \in 1..Len(NonNull(col.vals)) |->
                          Len(AsStr(NonNull(col.vals)[i], col.dtype))])
               > TextMinAvgLength * Len(NonNull(col.vals))
    THEN "text"
    ELSE "None"

\* _detect_single_column_type: unique_ratio < 0.5 is 2 * nunique < len(series),
\* avg_length > 50 is the summed length > 50 * len(non_null)
detect_single_column_type(col) ==
    IF Len(NonNull(col.vals)) = 0 THEN "empty"
    ELSE IF IsNumericDtype(col.dtype) THEN
        IF col.dtype = "int64"
            /\ 2 * NUnique(col.vals) < Len(col.vals)
            /\ NUnique(col.vals) < CategoricalMaxUnique
        THEN "categorical"
        ELSE "numeric"
    ELSE IF \A i \in 1..Len(col.vals) : col.vals[i].k = "nan" \/ ParsesAsDatetime(col.vals[i])
    THEN "datetime"
    ELSE IF 2 * NUnique(col.vals) < Len(col.vals) THEN "categorical"
    ELSE IF col.dtype = "object"
            /\ SumSeq([i \in 1..Len(NonNull(col.vals)) |->
                          Len(AsStr(NonNull(col.vals)[i], col.dtype))])
               > TextMinAvgLength * Len(NonNull(col.vals))
    THEN "text"
    ELSE "categorical"

\* detect_column_types: {column_name: type}
detect_column_types(t) ==
    [c \in ColNames(t) |-> detect_single_column_type(ColByName(t, c))]

----------------------------------------------------------------------------
(* Statistics calculator *)

\* What the installed scipy does where its releases differ: stats.skew and
\* stats.kurtosis of a constant sample (nan, or 0 and -3), and stats.pearsonr
\* of a sample that holds an infinity (ValueError, or a nan p-value)
Libs == [constNan : BOOLEAN, checksFinite : BOOLEAN]

\* The dictionary _calculate_numeric_stats returns for the finite values xs,
\* sorted being xs in order, ds its deviations and b its IQR bounds.
\* Series.std() has ddof = 1 and is nan for a single value; skewness
\* m3 / m2^1.5 and kurtosis m4 / m2^2 - 3 are given by their moment order and
\* are finite when the sample has a spread.
NumericReport(xs, sorted, ds, b, lib) ==
    [count |-> Len(xs),
     mean |-> Fin(SumSeq(xs), Len(xs)),
     median |-> Fin(Quantile4(sorted, 2), 4),
     std |-> IF Len(xs) < 2 THEN NanNum
             ELSE Sqrt(SumProd(ds, ds), Len(xs) * Len(xs) * (Len(xs) - 1)),
     min |-> Fin(sorted[1], 1),
     max |-> Fin(sorted[Len(xs)], 1),
     q1 |-> Fin(Quantile4(sorted, 1), 4),
     q3 |-> Fin(Quantile4(sorted, 3), 4),
     iqr |-> Fin(Quantile4(sorted, 3) - Quantile4(sorted, 1), 4),
     skewness |-> IF SumProd(ds, ds) = 0
                  THEN (IF lib.constNan THEN NanNum ELSE Fin(0, 1))
                  ELSE [k |-> "moment", order |-> 3, devs |-> ds, less |-> 0],
     kurtosis |-> IF SumProd(ds, ds) = 0
                  THEN (IF lib.constNan THEN NanNum ELSE Fin(-3, 1))
                  ELSE [k |-> "moment", order |-> 4, devs |-> ds, less |-> 3],
     outliers |->
         [count |-> Cardinality({i \in 1..Len(xs) : IsIqrOutlier(xs[i], b)}),
          percentage |->
              Fin(100 * Cardinality({i \in 1..Len(xs) : IsIqrOutlier(xs[i], b)}), Len(xs)),
          lower_bound |-> Fin(b.lower, 8),
          upper_bound |-> Fin(b.upper, 8)]]

\* _calculate_numeric_stats
calculate_numeric_stats(col, lib) ==
    IF Len(FiniteValues(col.vals)) = 0 THEN [error |-> "No valid numeric data"]
    ELSE NumericReport(FiniteValues(col.vals), SortInts(FiniteValues(col.vals)),
                       Devs(FiniteValues(col.vals)),
                       IqrBounds(SortInts(FiniteValues(col.vals))), lib)

\* Series.value_counts() of the non-missing values: a [value, count, pos] per
\* distinct value, pos being where it is first met, by falling count and for
\* equal counts in first-met order
ValueCounts(clean) ==
    [r \in 1..Cardinality({clean[i] : i \in 1..Len(clean)}) |->
        CHOOSE e \in {[value |-> clean[i], count |-> CountOf(clean, clean[i]), pos |-> i] :
                         i \in {j \in 1..Len(clean) : \A l \in 1..(j - 1) : clean[l] # clean[j]}} :
            Cardinality({i \in {j \in 1..Len(clean) : \A l \in 1..(j - 1) : clean[l] # clean[j]} :
                            \/ CountOf(clean, clean[i]) > e.count
                            \/ CountOf(clean, clean[i]) = e.count /\ i < e.pos}) = r - 1]

TopValues == 20

\* The dictionary _calculate_categorical_stats returns, vc being the value
\* counts; stats.entropy of a non-empty list of counts is finite
CategoricalReport(col, vc) ==
    [count |-> Len(NonNull(col.vals)),
     unique |-> NUnique(col.vals),
     top_value |-> AsStr(vc[1].value, col.dtype),
     top_frequency |-> vc[1].count,
     value_counts |->
         [i \in 1..(IF Len(vc) < TopValues THEN Len(vc) ELSE TopValues) |->
             [value |-> vc[i].value, count |-> vc[i].count]],
     entropy |-> [k |-> "entropy", num |-> 0, den |-> 1,
                  counts |-> [i \in 1..Len(vc) |-> vc[i].count]]]

\* _calculate_categorical_stats
calculate_categorical_stats(col) ==
    IF Len(NonNull(col.vals)) = 0 THEN [error |-> "No valid categorical data"]
    ELSE CategoricalReport(col, ValueCounts(NonNull(col.vals)))

\* The dictionary _calculate_datetime_stats returns for the cells that
\* pd.to_datetime(errors='coerce') does not turn to NaT: the isoformat() of
\* the earliest and of the latest timestamp, and the days between them
DatetimeReport(cells, days) ==
    [count |-> Len(cells),
     min |-> cells[CHOOSE i \in 1..Len(cells) : \A j \in 1..Len(cells) : days[i] <= days[j]].s
             \o <<"T", "0", "0", ":", "0", "0", ":", "0", "0">>,
     max |-> cells[CHOOSE i \in 1..Len(cells) : \A j \in 1..Len(cells) : days[i] >= days[j]].s
             \o <<"T", "0", "0", ":", "0", "0", ":", "0", "0">>,
     range_days |-> SortInts(days)[Len(days)] - SortInts(days)[1]]

\* _calculate_datetime_stats
calculate_datetime_stats(col) ==
    IF \A i \in 1..Len(col.vals) : ~ParsesAsDatetime(col.vals[i])
    THEN [error |-> "No valid datetime data"]
    ELSE DatetimeReport(SelectSeq(col.vals, ParsesAsDatetime),
                        [i \in 1..Len(SelectSeq(col.vals, ParsesAsDatetime)) |->
                            DayNumber(SelectSeq(col.vals, ParsesAsDatetime)[i].s)])

\* _calculate_basic_stats
calculate_basic_stats(col) ==
    [count |-> Len(NonNull(col.vals)),
     unique |-> NUnique(col.vals),
     missing |-> Len(col.vals) - Len(NonNull(col.vals))]

\* calculate_statistics: one block per column, by its type label
calculate_statistics(t, column_types, lib) ==
    [c \in ColNames(t) |->
        CASE column_types[c] = "numeric" -> calculate_numeric_stats(ColByName(t, c), lib)
          [] column_types[c] = "categorical" -> calculate_categorical_stats(ColByName(t, c))
          [] column_types[c] = "datetime" -> calculate_datetime_stats(ColByName(t, c))
          [] OTHER -> calculate_basic_stats(ColByName(t, c))]

----------------------------------------------------------------------------
(* Correlation engine *)

Methods == {"pearson", "spearman", "kendall"}

\* df.select_dtypes(include=[np.number]).columns, as column positions
NumericCols(t) == PosWhere([c \in 1..Len(t.cols) |-> IsNumericDtype(t.cols[c].dtype)])

\* The numeric columns that keep a value after dropna and isfinite
ValidCols(t) ==
    PosWhere([c \in 1..Len(t.cols) |->
        /\ IsNumericDtype(t.cols[c].dtype)
        /\ \E r \in 1..Len(t.index) : t.cols[c].vals[r].k = "num"])

\* cov / sqrt(ssx * ssy) from the deviations of two samples of one length: nan
\* when a sample has no spread (or no value)
PearsonOfDevs(dx, dy) ==
    IF SumProd(dx, dx) * SumProd(dy, dy) = 0 THEN NanNum
    ELSE SignedRoot(SumProd(dx, dy), SumProd(dx, dx) * SumProd(dy, dy))

\* Pearson's r of two finite samples of one length
PearsonOf(xs, ys) == PearsonOfDevs(Devs(xs), Devs(ys))

\* Twice the average rank of each value in its sample
Ranks2(xs) ==
    [i \in 1..Len(xs) |->
        2 * Cardinality({j \in 1..Len(xs) : xs[j] < xs[i]})
        + Cardinality({j \in 1..Len(xs) : xs[j] = xs[i]}) + 1]

\* The pairs of rows where the order of xs times the order of ys is sgn:
\* concordant (1), discordant (-1) or tied (0)
PairCount(xs, ys, sgn) ==
    Cardinality({p \in (1..Len(xs)) \X (1..Len(xs)) :
                    /\ p[1] < p[2]
                    /\ Sign(xs[p[1]] - xs[p[2]]) * Sign(ys[p[1]] - ys[p[2]]) = sgn})

\* Kendall's tau-b, (concordant - discordant) / sqrt((n0 - n1) * (n0 - n2)):
\* n0 - n1 is the number of pairs xs does not tie
KendallOf(xs, ys) ==
    IF PairCount(xs, xs, 1) * PairCount(ys, ys, 1) = 0 THEN NanNum
    ELSE SignedRoot(PairCount(xs, ys, 1) - PairCount(xs, ys, -1),
                    PairCount(xs, xs, 1) * PairCount(ys, ys, 1))

\* The numbers of a at the rows where a and b are both finite
PairedValues(a, b) ==
    NumbersOf(Take(a, PosWhere([i \in 1..Len(a) |-> a[i].k = "num" /\ b[i].k = "num"])))

\* The coefficient of two paired finite samples; same tells a column paired
\* with itself
CorrOn(xs, ys, method, same) ==
    CASE method = "pearson" -> PearsonOf(xs, ys)
      [] method = "spearman" -> PearsonOf(Ranks2(xs), Ranks2(ys))
      [] OTHER -> IF Len(xs) = 0 THEN NanNum
                  ELSE IF same THEN Fin(1, 1)
                  ELSE KendallOf(xs, ys)

\* One cell of DataFrame.corr(method) for the columns a and b
CorrOf(a, b, method) ==
    CorrOn(PairedValues(a.vals, b.vals), PairedValues(b.vals, a.vals), method, a.name = b.name)

\* The cells of a sample as numbers that order like them (an infinity last or first)
RankKeys(x) == [i \in 1..Len(x) |-> IF x[i].k = "inf" THEN x[i].n * 1000000 ELSE x[i].n]

\* The p-value of a pair of columns: stats.pearsonr(x, y)[1] or
\* stats.spearmanr(x, y)[1] of each column's own non-missing values, None for
\* another method.  A p-value of a coefficient r at n points is a finite number
\* in [0, 1].
PValueOf(x, y, method, lib) ==
    IF method \notin {"pearson", "spearman"} THEN [k |-> "none"]
    ELSE IF Len(x) # Len(y) THEN Raise("ValueError")
    ELSE IF method = "pearson" THEN
        IF Len(x) < 2 THEN Raise("ValueError")
        ELSE IF (\A i \in 1..Len(x) : x[i] = x[1]) \/ (\A i \in 1..Len(y) : y[i] = y[1])
        THEN NanNum
        ELSE IF \E i \in 1..Len(x) : x[i].k = "inf" \/ y[i].k = "inf"
        THEN (IF lib.checksFinite THEN Raise("ValueError") ELSE NanNum)
        ELSE IF Len(x) = 2 THEN Fin(1, 1)
        ELSE [k |-> "pvalue", r |-> PearsonOf(NumbersOf(x), NumbersOf(y)), n |-> Len(x)]
    ELSE
        IF PearsonOf(Ranks2(RankKeys(x)), Ranks2(RankKeys(y))).k = "nan" \/ Len(x) = 2
        THEN NanNum
        ELSE [k |-> "pvalue", r |-> PearsonOf(Ranks2(RankKeys(x)), Ranks2(RankKeys(y))),
              n |-> Len(x)]

\* _classify_correlation_strength: |r| >= 0.7, 0.4, 0.2 on r * r
classify_correlation_strength(r) ==
    IF 100 * Abs(r.num) >= 49 * r.den THEN "strong"
    ELSE IF 100 * Abs(r.num) >= 16 * r.den THEN "moderate"
    ELSE IF 100 * Abs(r.num) >= 4 * r.den THEN "weak"
    ELSE "very_weak"

\* for i in range(n), for j in range(n): every ordered pair from (i, j) on
RECURSIVE AllPairs(_, _, _)
AllPairs(n, i, j) ==
    IF i > n THEN <<>>
    ELSE IF j > n THEN AllPairs(n, i + 1, 1)
    ELSE <<(<<i, j>>)>> \o AllPairs(n, i, j + 1)

\* for i in range(n), for j in range(i + 1, n): the pairs from (i, j) on, in
\* generation order
RECURSIVE Pairs(_, _, _)
Pairs(n, i, j) ==
    IF i > n THEN <<>>
    ELSE IF j > n THEN Pairs(n, i + 1, i + 2)
    ELSE <<(<<i, j>>)>> \o Pairs(n, i, j + 1)

\* The edges left in the order the loop appended them
Unsorted(s) == s

\* list.sort(key=abs(correlation), reverse=True), a stable sort: |r| is
\* compared on r * r
RECURSIVE SortEdges(_)
SortEdges(s) ==
    IF s = <<>> THEN <<>>
    ELSE SortEdges(SelectSeq(Tail(s), LAMBDA e :
             Abs(e.correlation.num) * Head(s).correlation.den
                 > Abs(Head(s).correlation.num) * e.correlation.den))
         \o <<Head(s)>>
         \o SortEdges(SelectSeq(Tail(s), LAMBDA e :
             Abs(e.correlation.num) * Head(s).correlation.den
                 <= Abs(Head(s).correlation.num) * e.correlation.den))

\* What the pair of the columns a and b appends to 'correlations', r being
\* corr_matrix.loc[col1, col2] and p the p-value (computed when r is a
\* number): nothing when r is nan, the raise of the p-value computation, or
\* the edge
EdgeOf(a, b, r, p) ==
    IF r.k = "nan" THEN <<>>
    ELSE IF IsRaised(p) THEN <<p>>
    ELSE <<[column1 |-> a.name,
            column2 |-> b.name,
            correlation |-> r,
            p_value |-> p,
            strength |-> classify_correlation_strength(r)]>>

\* The loop over the pairs of valid_cols
RECURSIVE EdgesOf(_, _, _, _, _)
EdgesOf(t, valid, pairs, method, lib) ==
    IF pairs = <<>> THEN <<>>
    ELSE EdgeOf(t.cols[valid[Head(pairs)[1]]], t.cols[valid[Head(pairs)[2]]],
                CorrOf(t.cols[valid[Head(pairs)[1]]], t.cols[valid[Head(pairs)[2]]], method),
                PValueOf(NonNull(t.cols[valid[Head(pairs)[1]]].vals),
                         NonNull(t.cols[valid[Head(pairs)[2]]].vals), method, lib))
         \o EdgesOf(t, valid, Tail(pairs), method, lib)

\* The dictionary calculate_correlations returns, or the first raise its loop
\* met, which ends the call
CorrelationsFrom(t, valid, found, method) ==
    IF \E i \in 1..Len(found) : IsRaised(found[i])
    THEN found[CHOOSE i \in 1..Len(found) :
                   IsRaised(found[i]) /\ \A j \in 1..(i - 1) : ~IsRaised(found[j])]
    ELSE [method |-> method,
          matrix |-> [a \in {t.cols[valid[i]].name : i \in 1..Len(valid)} |->
                       [b \in {t.cols[valid[i]].name : i \in 1..Len(valid)} |->
                           CorrOf(ColByName(t, a), ColByName(t, b), method)]],
          correlations |-> SortEdges(found),
          columns |-> [i \in 1..Len(valid) |-> t.cols[valid[i]].name]]

\* calculate_correlations
calculate_correlations(t, method, lib) ==
    IF Len(NumericCols(t)) < 2 THEN [error |-> "Not enough numeric columns for correlation"]
    ELSE IF Len(ValidCols(t)) < 2 THEN [error |-> "Not enough valid numeric columns"]
    ELSE CorrelationsFrom(t, ValidCols(t),
                          EdgesOf(t, ValidCols(t), Pairs(Len(ValidCols(t)), 1, 2), method, lib),
                          method)

----------------------------------------------------------------------------
(* Outlier detector *)

\* clean_data of a column: its finite values under the row labels they keep
CleanData(t, col) ==
    [index |-> Take(t.index, PosWhere([i \in 1..Len(col.vals) |-> col.vals[i].k = "num"])),
     values |-> FiniteValues(col.vals)]

\* The dictionary _detect_outliers_iqr or _detect_outliers_zscore returns but
\* for the bounds, hit being the flagged positions of data
OutlierReport(data, hit) ==
    [count |-> Len(hit),
     percentage |-> Fin(100 * Len(hit), Len(data.values)),
     indices |-> Take(data.index, hit),
     values |-> Take(data.values, hit)]

\* The dictionary _detect_outliers_iqr returns, b being the bounds
IqrReport(data, b) ==
    OutlierReport(data, PosWhere([i \in 1..Len(data.values) |-> IsIqrOutlier(data.values[i], b)]))
    @@ [bounds |-> [lower |-> Fin(b.lower, 8), upper |-> Fin(b.upper, 8)]]

\* _detect_outliers_iqr
detect_outliers_iqr(data) == IqrReport(data, IqrBounds(SortInts(data.values)))

ZScoreLimit == 3

\* _detect_outliers_zscore: |x - mean| / std > 3 with the population std, that
\* is d * d * n > 9 * ss on the deviations times n; a nan z-score (ss = 0)
\* flags nothing
detect_outliers_zscore(data) ==
    OutlierReport(data,
                  PosWhere([i \in 1..Len(data.values) |->
                      /\ SumProd(Devs(data.values), Devs(data.values)) # 0
                      /\ Devs(data.values)[i] * Devs(data.values)[i] * Len(data.values)
                             > ZScoreLimit * ZScoreLimit
                               * SumProd(Devs(data.values), Devs(data.values))]))

\* detect_outliers: a block for each numeric column that keeps a finite value;
\* a method that is not known skips every column
detect_outliers(t, method) ==
    [method |-> method,
     results |->
         [c \in (IF method \in {"iqr", "zscore"}
                  THEN {t.cols[ValidCols(t)[i]].name : i \in 1..Len(ValidCols(t))}
                  ELSE {}) |->
             IF method = "iqr" THEN detect_outliers_iqr(CleanData(t, ColByName(t, c)))
             ELSE detect_outliers_zscore(CleanData(t, ColByName(t, c)))]]

----------------------------------------------------------------------------
(* Data quality scorer *)

RowOf(t, i) == [c \in 1..Len(t.cols) |-> t.cols[c].vals[i]]

\* df.duplicated() of row i: equal to an earlier row (missing equals missing)
IsDuplicated(t, i) == \E j \in 1..(i - 1) : RowOf(t, j) = RowOf(t, i)

\* series.isna().sum() and np.isinf(series).sum()
MissingIn(col) == CountOf([i \in 1..Len(col.vals) |-> col.vals[i].k], "nan")
InfIn(col) == CountOf([i \in 1..Len(col.vals) |-> col.vals[i].k], "inf")

\* a / b of a numpy number by a Python int: nan for 0 / 0
NpDiv(a, b) == IF b = 0 THEN NanNum ELSE Fin(a, b)

\* The dictionary analyze_data_quality returns for a table of R rows, C
\* columns and T cells, with m missing cells, d duplicate rows and the columns
\* inf holding an infinity.  The score is
\* (completeness * 0.5 + uniqueness * 0.3 + validity * 0.2) * 100, nan when a
\* ratio is 0 / 0.
QualityReport(t, R, C, T, m, d, inf) ==
    [quality_score |->
         IF T = 0 \/ R = 0 THEN NanNum
         ELSE Fin(100 * (5 * (T - m) * R * C + 3 * (R - d) * T * C
                         + 2 * (C - Cardinality(inf)) * T * R),
                  10 * T * R * C),
     completeness |-> NpDiv(100 * (T - m), T),
     missing_values |->
         [total |-> m,
          percentage |-> NpDiv(100 * m, T),
          by_column |->
              [c \in {t.cols[i].name : i \in {j \in 1..C : MissingIn(t.cols[j]) > 0}} |->
                  [count |-> MissingIn(ColByName(t, c)),
                   percentage |-> Fin(100 * MissingIn(ColByName(t, c)), R)]]],
     duplicates |-> [count |-> d, percentage |-> NpDiv(100 * d, R)],
     infinite_values |->
         [columns_affected |-> Cardinality(inf),
          by_column |->
              [c \in {t.cols[i].name : i \in inf} |->
                  [count |-> InfIn(ColByName(t, c)),
                   percentage |-> Fin(100 * InfIn(ColByName(t, c)), R)]]]]

\* analyze_data_quality: len(infinite_by_column) / len(df.columns) is a division
\* of Python ints and raises for a table without columns
analyze_data_quality(t) ==
    IF Len(t.cols) = 0 THEN Raise("ZeroDivisionError")
    ELSE QualityReport(t, Len(t.index), Len(t.cols), Len(t.index) * Len(t.cols),
                       SumSeq([c \in 1..Len(t.cols) |-> MissingIn(t.cols[c])]),
                       Cardinality({i \in 1..Len(t.index) : IsDuplicated(t, i)}),
                       {c \in 1..Len(t.cols) :
                           IsNumericDtype(t.cols[c].dtype) /\ InfIn(t.cols[c]) > 0})

----------------------------------------------------------------------------
(* Table loader *)

Exts == {"csv", "xlsx", "xls", "parquet", "txt"}

\* A loader that reads the file as CSV whatever its extension
ReadAsCsv(f) == IF f.ok /\ Len(f.table.cols) > 0 THEN f.table ELSE Raise("Exception")

\* The body of the try of load_data: self.df, or what is raised.  pd.read_csv
\* raises on a file it cannot read or parse and on one without columns
\* (EmptyDataError); pd.read_excel raises on a file it cannot read, and reads
\* an empty sheet as a table without rows and columns.
ReadFile(f) ==
    IF f.ext = "csv"
    THEN (IF f.ok /\ Len(f.table.cols) > 0 THEN f.table ELSE Raise("Exception"))
    ELSE IF f.ext \in {"xlsx", "xls"}
    THEN (IF f.ok THEN f.table ELSE Raise("Exception"))
    ELSE Raise("ValueError")

\* A loader that returns True whatever the try block did, self.df an empty table
LoadedAnyway(f) ==
    [ok |-> TRUE,
     df |-> IF IsRaised(ReadFile(f)) THEN [cols |-> <<>>, index |-> <<>>] ELSE ReadFile(f)]

\* load_data: [ok, df], df being self.df after the call; except Exception:
\* return False
load_data(f) ==
    IF IsRaised(ReadFile(f)) THEN [ok |-> FALSE, df |-> None]
    ELSE [ok |-> TRUE, df |-> ReadFile(f)]

----------------------------------------------------------------------------
(* run_full_analysis *)

\* What a call of the processor comes to: the value it returns (or the
\* exception it raises), the steps it ran, self.df after it, and the file at
\* save_path
Run(res, ran, t, out) == [result |-> res, steps |-> ran, df |-> t, saved |-> out]

\* A try block without its except clause
Propagate(r) == r

\* except Exception as e: return {'error': str(e)}
Catch(r) == IF IsRaised(r) THEN [error |-> r.raised] ELSE r

\* The calls of run_full_analysis, in order
AnalysisSteps ==
    <<"load_data", "detect_column_types", "calculate_statistics", "calculate_correlations",
      "detect_outliers", "analyze_data_quality">>

\* The try block of run_full_analysis once steps 1, 3 and 5 are known: a raise
\* of a step ends it
AnalysisFrom(t, column_types, correlations, quality, lib) ==
    IF IsRaised(correlations) THEN Run(Catch(correlations), SubSeq(AnalysisSteps, 1, 4), t, None)
    ELSE IF IsRaised(quality) THEN Run(Catch(quality), AnalysisSteps, t, None)
    ELSE Run(Catch([dataset_id |-> "dataset",
                    shape |-> [rows |-> Len(t.index), columns |-> Len(t.cols)],
                    column_types |-> column_types,
                    statistics |-> calculate_statistics(t, column_types, lib),
                    correlations |-> correlations,
                    outliers |-> detect_outliers(t, "iqr"),
                    quality |-> quality,
                    analyzed_at |-> "utcnow"]),
             AnalysisSteps, t, None)

\* run_full_analysis
run_full_analysis(f, lib) ==
    IF ~load_data(f).ok
    THEN Run([error |-> "Failed to load dataset"], <<"load_data">>, load_data(f).df, None)
    ELSE AnalysisFrom(load_data(f).df, detect_column_types(load_data(f).df),
                      calculate_correlations(load_data(f).df, "pearson", lib),
                      analyze_data_quality(load_data(f).df), lib)

----------------------------------------------------------------------------
(* apply_cleaning *)

Options ==
    [dropDuplicates : BOOLEAN, fillMissing : BOOLEAN, standardizeText : BOOLEAN,
     removeOutliers : BOOLEAN, protectedColumns : SUBSET {"c1", "c2"}]

\* The rows of a table at the given positions, index labels kept
KeepRows(t, pos) ==
    [cols |-> [c \in 1..Len(t.cols) |-> [t.cols[c] EXCEPT !.vals = Take(@, pos)]],
     index |-> Take(t.index, pos)]

\* df.drop_duplicates(): the first row of every group of equal rows
drop_duplicates(t) == KeepRows(t, PosWhere([i \in 1..Len(t.index) |-> ~IsDuplicated(t, i)]))

\* The characters of the texts of the model, in code point order
Alphabet == <<"\t", "\n", " ", "-", ".", "0", "1", "2", "3", "4", "5", "6", "7", "8", "9",
              "U", "a", "b", "f", "i", "k", "n", "o", "w", "x">>

\* v < w for two cells of one column, both numbers or both strings (s1 < s2
\* of Python strings)
RECURSIVE CellLess(_, _)
CellLess(v, w) ==
    IF v.k # "str" THEN v.n < w.n
    ELSE IF w.s = <<>> THEN FALSE
    ELSE IF v.s = <<>> THEN TRUE
    ELSE IF Head(v.s) # Head(w.s)
    THEN (CHOOSE i \in 1..Len(Alphabet) : Alphabet[i] = Head(v.s))
             < (CHOOSE i \in 1..Len(Alphabet) : Alphabet[i] = Head(w.s))
    ELSE CellLess(Str(Tail(v.s)), Str(Tail(w.s)))

\* mode().iloc[0] if not mode().empty else "Unknown", of the non-missing
\* values: the smallest of the most frequent values
ModeOf(clean) ==
    IF Len(clean) = 0 THEN Str(<<"U", "n", "k", "n", "o", "w", "n">>)
    ELSE CHOOSE v \in {clean[i] : i \in 1..Len(clean)} :
             \A i \in 1..Len(clean) :
                 \/ CountOf(clean, clean[i]) < CountOf(clean, v)
                 \/ CountOf(clean, clean[i]) = CountOf(clean, v)
                    /\ (clean[i] = v \/ CellLess(v, clean[i]))

\* The number of cells of a column that are the infinity of a sign
InfCount(col, sign) == CountOf(col.vals, Inf(sign))

\* The k-th of the non-missing values of a column in ascending order
SortedAt(col, k) ==
    IF k <= InfCount(col, -1) THEN Inf(-1)
    ELSE IF k > InfCount(col, -1) + Len(FiniteValues(col.vals)) THEN Inf(1)
    ELSE Num(SortInts(FiniteValues(col.vals))[k - InfCount(col, -1)])

\* The mean of two values: nan for the two infinities, an infinity with
\* anything else, and a whole number for two numbers of one parity, as in all
\* tables here
MeanOfTwo(a, b) ==
    IF a.k = "num" /\ b.k = "num"
    THEN Num(CHOOSE m \in {(a.n + b.n) \div 2} : 2 * m = a.n + b.n)
    ELSE IF a.k = "inf" /\ b.k = "inf" /\ a.n # b.n THEN NaN
    ELSE IF a.k = "inf" THEN a
    ELSE b

\* Series.median() of a numeric column that holds a non-missing value: the
\* middle one of the n non-missing values in order, or the mean of the two in
\* the middle
MedianOf(col, n) ==
    IF n % 2 = 1 THEN SortedAt(col, (n + 1) \div 2)
    ELSE MeanOfTwo(SortedAt(col, n \div 2), SortedAt(col, n \div 2 + 1))

MedianCell(col) == MedianOf(col, Len(NonNull(col.vals)))

\* df_clean[col].fillna(fill_val), the column then having dtype
FillNa(col, fill_val, dtype) ==
    [name |-> col.name,
     dtype |-> dtype,
     vals |-> [i \in 1..Len(col.vals) |->
                  IF col.vals[i].k = "nan" THEN fill_val ELSE col.vals[i]]]

\* Step 2 on one column: fillna with the median or the mode when the column
\* is not protected and holds a missing value
FillColumn(col, protected) ==
    IF col.name \in protected \/ MissingIn(col) = 0 THEN col
    ELSE IF detect_single_column_type(col) = "numeric"
    THEN FillNa(col, MedianCell(col), col.dtype)
    ELSE FillNa(col, ModeOf(NonNull(col.vals)), "object")

\* (original_series != cleaned_series).sum() of one column as strings
StripChanges(col) ==
    Cardinality({i \in 1..Len(col.vals) :
                    AsStr(col.vals[i], col.dtype) # Strip(AsStr(col.vals[i], col.dtype))})

\* Step 3 on one column: df_clean[col] = df_clean[col].astype(str).str.strip()
\* when the column holds objects, is not protected and the strip changes a cell
StripColumn(col, protected) ==
    IF col.dtype # "object" \/ col.name \in protected \/ StripChanges(col) = 0 THEN col
    ELSE [col EXCEPT !.vals = [i \in 1..Len(@) |-> Str(Strip(AsStr(@[i], col.dtype)))]]

\* The rows step 4 removes for one column without an infinity,
\* (df_clean[col] < lower) | (df_clean[col] > upper): the quantiles skip the
\* missing values and are nan when there is no other, and a missing value
\* compares false
OutlierRows(col) ==
    IF Len(FiniteValues(col.vals)) = 0 THEN {}
    ELSE {i \in 1..Len(col.vals) :
             /\ col.vals[i].k # "nan"
             /\ IsIqrOutlier(col.vals[i].n, IqrBounds(SortInts(FiniteValues(col.vals))))}

\* The rows out counted and left in df_clean
CountRows(st, out) == [st EXCEPT !.outliers_capped = @ + Cardinality(out)]

\* df_clean without the rows out, which are counted
RemoveRows(st, out) ==
    [st EXCEPT !.df_clean = KeepRows(@, PosWhere([r \in 1..Len(@.index) |-> r \notin out])),
               !.outliers_capped = @ + Cardinality(out)]

\* Step 4 without the test of protected_cols
RECURSIVE RemoveFromAll(_, _, _, _)
RemoveFromAll(st, cols, i, protected) ==
    IF i > Len(cols) THEN st
    ELSE RemoveFromAll(RemoveRows(st, OutlierRows(st.df_clean.cols[cols[i]])),
                       cols, i + 1, protected)

\* Step 4 from the i-th of the numeric columns on, each column on the rows
\* the columns before it left
RECURSIVE RemoveFrom(_, _, _, _)
RemoveFrom(st, cols, i, protected) ==
    IF i > Len(cols) THEN st
    ELSE IF st.df_clean.cols[cols[i]].name \in protected
    THEN RemoveFrom(st, cols, i + 1, protected)
    ELSE RemoveFrom(RemoveRows(st, OutlierRows(st.df_clean.cols[cols[i]])),
                    cols, i + 1, protected)

\* 2. Fill Missing, on the table and counts st that step 1 left
FillMissing(st, opts) ==
    IF ~opts.fillMissing THEN st
    ELSE [st EXCEPT
             !.df_clean.cols = [c \in 1..Len(@) |-> FillColumn(@[c], opts.protectedColumns)],
             !.filled_missing =
                 SumSeq([c \in 1..Len(st.df_clean.cols) |->
                            IF st.df_clean.cols[c].name \in opts.protectedColumns THEN 0
                            ELSE MissingIn(st.df_clean.cols[c])])]

\* 3. Standardize Text
StandardizeText(st, opts) ==
    IF ~opts.standardizeText THEN st
    ELSE [st EXCEPT
             !.df_clean.cols = [c \in 1..Len(@) |-> StripColumn(@[c], opts.protectedColumns)],
             !.text_standardized =
                 SumSeq([c \in 1..Len(st.df_clean.cols) |->
                            IF st.df_clean.cols[c].dtype # "object"
                                \/ st.df_clean.cols[c].name \in opts.protectedColumns
                            THEN 0
                            ELSE StripChanges(st.df_clean.cols[c])])]

\* Step 4 with the bounds of every column taken on the table step 3 left, and
\* a row counted for every column that puts it out
RemoveAtOnce(st, opts) ==
    IF ~opts.removeOutliers THEN st
    ELSE [st EXCEPT
             !.df_clean =
                 KeepRows(@, PosWhere([r \in 1..Len(@.index) |->
                     \A c \in 1..Len(@.cols) :
                         \/ ~IsNumericDtype(@.cols[c].dtype)
                         \/ @.cols[c].name \in opts.protectedColumns
                         \/ r \notin OutlierRows(@.cols[c])])),
             !.outliers_capped =
                 SumSeq([c \in 1..Len(st.df_clean.cols) |->
                            IF ~IsNumericDtype(st.df_clean.cols[c].dtype)
                                \/ st.df_clean.cols[c].name \in opts.protectedColumns
                            THEN 0
                            ELSE Cardinality(OutlierRows(st.df_clean.cols[c]))])]

\* 4. Remove Outliers
RemoveOutliers(st, opts) ==
    IF ~opts.removeOutliers THEN st
    ELSE RemoveFrom(st, NumericCols(st.df_clean), 1, opts.protectedColumns)

\* Steps 1 to 4 of apply_cleaning on a copy of the table: df_clean and the
\* count of each step
cleaning_steps(t, opts) ==
    RemoveOutliers(
        StandardizeText(
            FillMissing(
                [df_clean |-> IF opts.dropDuplicates THEN drop_duplicates(t) ELSE t,
                 dropped_duplicates |->
                     IF opts.dropDuplicates
                     THEN Len(t.index) - Len(drop_duplicates(t).index)
                     ELSE 0,
                 filled_missing |-> 0,
                 text_standardized |-> 0,
                 outliers_capped |-> 0],
                opts),
            opts),
        opts)

\* logs.append(...) of a step, which a count of 0 skips
LogEntry(action, reason, count) ==
    IF count > 0 THEN <<[action |-> action, reason |-> reason, count |-> count]>> ELSE <<>>

\* The calls of apply_cleaning when the first quality analysis returns
CleaningStepsRun(opts) ==
    <<"load_data", "analyze_data_quality">>
    \o (IF opts.dropDuplicates THEN <<"drop_duplicates">> ELSE <<>>)
    \o (IF opts.fillMissing THEN <<"fill_missing">> ELSE <<>>)
    \o (IF opts.standardizeText THEN <<"standardize_text">> ELSE <<>>)
    \o (IF opts.removeOutliers THEN <<"remove_outliers">> ELSE <<>>)
    \o <<"analyze_data_quality">>

\* int(quality['quality_score']): a nan raises
IntOf(x) == IF x.k = "nan" THEN Raise("ValueError") ELSE [int |-> x.num \div x.den]

\* Whether a save_path is given and whether writing it fails
SaveOutcomes == {"none", "written", "failed"}

\* One column written by to_csv(index=False) and read back by read_csv: a text
\* that is empty or reads nan comes back as a missing value, a column of
\* objects that holds nothing else as float64, a column without rows as object
CsvColumn(col) ==
    [name |-> col.name,
     dtype |-> IF Len(col.vals) = 0 THEN "object"
               ELSE IF col.dtype = "object"
                       /\ \A i \in 1..Len(col.vals) :
                              \/ col.vals[i].k = "nan"
                              \/ col.vals[i].k = "str"
                                 /\ col.vals[i].s \in {<<>>, <<"n", "a", "n">>}
               THEN "float64"
               ELSE col.dtype,
     vals |-> [i \in 1..Len(col.vals) |->
                  IF col.vals[i].k = "str" /\ col.vals[i].s \in {<<>>, <<"n", "a", "n">>}
                  THEN NaN
                  ELSE col.vals[i]]]

\* The file at save_path after df_clean.to_csv(save_path, index=False), as a
\* new processor loads it
SavedFile(t) ==
    [ext |-> "csv",
     ok |-> TRUE,
     table |-> [cols |-> [c \in 1..Len(t.cols) |-> CsvColumn(t.cols[c])],
                index |-> [i \in 1..Len(t.index) |-> i - 1]]]

\* The dictionary apply_cleaning returns, or the raise of an int() in it
CleaningReport(t, st, before, after) ==
    IF IsRaised(before) THEN before
    ELSE IF IsRaised(after) THEN after
    ELSE [originalRows |-> Len(t.index),
          finalRows |-> Len(st.df_clean.index),
          droppedDuplicates |-> st.dropped_duplicates,
          filledMissing |-> st.filled_missing,
          outliersCapped |-> st.outliers_capped,
          textStandardized |-> st.text_standardized,
          beforeQualityScore |-> before.int,
          afterQualityScore |-> after.int,
          logs |-> LogEntry("Deduplication", "Exact duplicate rows detected",
                            st.dropped_duplicates)
                   \o LogEntry("Imputation", "Missing values filled with median/mode",
                               st.filled_missing)
                   \o LogEntry("Standardization", "Whitespace stripped from text columns",
                               st.text_standardized)
                   \o LogEntry("Outlier Removal", "Rows with values outside 1.5*IQR removed",
                               st.outliers_capped),
          intents |-> detect_column_types(st.df_clean),
          schemaValidation |-> [isValid |-> TRUE, errors |-> <<>>]]

\* apply_cleaning from the recalculation of the quality on: the save, then
\* the return
CleaningFrom(t, initial_quality, st, final_quality, opts, save) ==
    IF IsRaised(final_quality) THEN Run(final_quality, CleaningStepsRun(opts), st.df_clean, None)
    ELSE IF save = "failed"
    THEN Run([error |-> "Failed to save data"], CleaningStepsRun(opts), t, None)
    ELSE Run(CleaningReport(t, st, IntOf(initial_quality.quality_score),
                            IntOf(final_quality.quality_score)),
             CleaningStepsRun(opts), t,
             IF save = "written" THEN SavedFile(st.df_clean) ELSE None)

\* apply_cleaning from the copy of the loaded table on, st being what steps 1
\* to 4 come to: the raise of the first quality analysis is not caught
CleaningOf(t, initial_quality, st, opts, save) ==
    IF IsRaised(initial_quality)
    THEN Run(initial_quality, <<"load_data", "analyze_data_quality">>, t, None)
    ELSE CleaningFrom(t, initial_quality, st, analyze_data_quality(st.df_clean), opts, save)

\* apply_cleaning(options, save_path)
apply_cleaning(f, opts, save) ==
    IF ~load_data(f).ok
    THEN Run([error |-> "Failed to load dataset"], <<"load_data">>, load_data(f).df, None)
    ELSE CleaningOf(load_data(f).df, analyze_data_quality(load_data(f).df),
                    cleaning_steps(load_data(f).df, opts), opts, save)

----------------------------------------------------------------------------
(* The tables and files of the model *)

MaxRows == 3
MaxLoadRows == 1
MaxCleanRows == 3
MaxIqrRows == 5
MaxCorrRows == 3

\* A text longer than TextMinAvgLength characters, and an ISO date
LongText == [i \in 1..(TextMinAvgLength + 1) |-> "x"]
DateText == <<"2", "0", "2", "4", "-", "0", "1", "-", "0", "5">>

\* The values a column of each kind draws its cells from
KindVals(kind) ==
    CASE kind = "f" -> {Num(1), Num(2), NaN}
      [] kind = "g" -> {Num(1), Inf(1)}
      [] kind = "h" -> {Num(1), Num(2)}
      [] kind = "i" -> {Num(1), Num(2)}
      [] kind = "q" -> {Num(1), Num(2), Num(3), Num(4), Num(100)}
      [] kind = "s" -> {Str(<<"a">>), Str(DateText), NaN}
      [] OTHER -> {Str(LongText), Str(DateText), NaN}

\* The dtype read_csv and read_excel infer: object for a column without rows,
\* int64 for whole numbers written without a decimal point, float64 for other
\* numbers and for a column that holds only missing values
InferDtype(kind, vals) ==
    IF Len(vals) = 0 THEN "object"
    ELSE IF kind \in {"i", "q"} THEN "int64"
    ELSE IF kind \in {"f", "g", "h"} \/ (\A i \in 1..Len(vals) : vals[i].k = "nan") THEN "float64"
    ELSE "object"

\* The table of a sequence of rows whose cells are of the kinds of schema, in
\* order, as read_csv and read_excel type it: the index is a RangeIndex from 0
TableOfRows(schema, rows) ==
    [cols |-> [c \in 1..Len(schema) |->
                  [name |-> <<"c1", "c2", "c3">>[c],
                   dtype |-> InferDtype(schema[c], [i \in 1..Len(rows) |-> rows[i][c]]),
                   vals |-> [i \in 1..Len(rows) |-> rows[i][c]]]],
     index |-> [i \in 1..Len(rows) |-> i - 1]]

\* The CSV files of the tables of at most max rows, each row out of rowSet
CsvFiles(schema, rowSet, max) ==
    {[ext |-> "csv", ok |-> TRUE, table |-> TableOfRows(schema, rows)] :
        rows \in UNION {[1..n -> rowSet] : n \in 0..max}}

\* The rows of the kinds of a schema
RowsOf(schema) ==
    {r \in [1..Len(schema) -> UNION {KindVals(schema[c]) : c \in 1..Len(schema)}] :
        \A c \in 1..Len(schema) : r[c] \in KindVals(schema[c])}

Schemas == {<<"f">>, <<"g">>, <<"i">>, <<"s">>, <<"t">>, <<"f", "h">>, <<"g", "s">>}

\* An Excel file of an empty sheet
EmptySheet == [ext |-> "xlsx", ok |-> TRUE, table |-> [cols |-> <<>>, index |-> <<>>]]

\* A CSV file of one column of ids, the same one three times and one left
\* out, which read_csv types float64
IdColumn ==
    [ext |-> "csv", ok |-> TRUE,
     table |-> TableOfRows(<<"f">>, <<<<Num(1)>>, <<Num(1)>>, <<Num(1)>>, <<NaN>>>>)]

\* The rows the tables apply_cleaning is given are made of: a number and a text
CleanRows ==
    {<<Num(1), Str(<<"a">>)>>, <<Num(1), Str(<<" ", "a">>)>>, <<NaN, Str(<<"a">>)>>,
     <<Num(3), NaN>>, <<Num(1), NaN>>}

MaxStepRows == 6

\* The rows of the tables the four steps are followed on, a number and a
\* text: equal rows, rows that the strip or the fill makes equal, missing
\* cells, a number far from the others and the two infinities
StepRows ==
    <<<<Num(1), Str(<<"a">>)>>, <<Num(1), Str(<<"a">>)>>, <<Num(1), Str(<<" ", "a">>)>>,
      <<NaN, Str(<<"a">>)>>, <<Num(1), NaN>>, <<Num(101), Str(<<"b">>)>>,
      <<Inf(1), Str(<<"a">>)>>, <<Inf(-1), Str(<<"a">>)>>>>

\* The rows of the tables of two numeric columns: numbers far from the others
\* in one column, in the other and in both
OutlierPairs ==
    <<<<Num(1), Num(1)>>, <<Num(1), Num(1)>>, <<Num(1), Num(1)>>, <<Num(1), Num(1)>>,
      <<Num(1), Num(101)>>, <<Num(101), Num(101)>>, <<Num(101), Num(1)>>>>

\* The CSV files of the tables of at most max of the rows of base, in order
SubTables(schema, base, max) ==
    {[ext |-> "csv", ok |-> TRUE, table |-> TableOfRows(schema, Take(base, PosWhere(keep)))] :
        keep \in {k \in [1..Len(base) -> BOOLEAN] :
                     Cardinality({i \in 1..Len(base) : k[i]}) <= max}}

----------------------------------------------------------------------------
(* The processor *)

\* EDAProcessor(dataset_id, file_path) on one of the files
StartOn(files) ==
    \E f \in files :
        /\ file = f
        /\ df = None
        /\ result = None
        /\ steps = <<>>
        /\ options = None
        /\ saved = None
        /\ first = None
        /\ pc = "new"
        /\ records = <<>>
        /\ tasks = <<>>
        /\ requests = <<>>

\* A call of the processor is over
Returned(run, at) ==
    /\ result' = run.result
    /\ steps' = run.steps
    /\ df' = run.df
    /\ saved' = run.saved
    /\ pc' = at
    /\ UNCHANGED <<records, tasks, requests>>

\* processor.run_full_analysis() on a new processor
RunFullAnalysis ==
    /\ pc = "new"
    /\ \E lib \in Libs : Returned(run_full_analysis(file, lib), "analyzed")
    /\ UNCHANGED <<file, options, first>>

\* processor.apply_cleaning(options, save_path) on a new processor; the
\* quantiles of a column that holds an infinity depend on the numpy at hand,
\* and removeOutliers is not asked for on such a table
ApplyCleaning(saveSet) ==
    /\ pc = "new"
    /\ \E opts \in Options, save \in saveSet :
          /\ opts.removeOutliers => \A c \in 1..Len(file.table.cols) : InfIn(file.table.cols[c]) = 0
          /\ Returned(apply_cleaning(file, opts, save), "cleaned")
          /\ options' = opts
    /\ UNCHANGED <<file, first>>

\* apply_cleaning with the same options by a new processor on the file the
\* first pass saved, saving again
ApplyCleaningAgain ==
    /\ pc = "cleaned"
    /\ saved # None
    /\ first' = result
    /\ Returned(apply_cleaning(saved, options, "written"), "recleaned")
    /\ UNCHANGED <<file, options>>

\* load_data() and calculate_correlations(method) on a new processor; without
\* a table the method reads None
CalculateCorrelations ==
    /\ pc = "new"
    /\ \E method \in Methods, lib \in Libs :
          Returned(Run(IF load_data(file).ok
                       THEN calculate_correlations(load_data(file).df, method, lib)
                       ELSE Raise("AttributeError"),
                       <<"load_data", "calculate_correlations">>, load_data(file).df, None),
                   "correlated")
    /\ UNCHANGED <<file, options, first>>

\* The analysis of the tables of the schemas, of an empty sheet, of a column
\* of ids and of an Excel file
Init ==
    StartOn(UNION {CsvFiles(sch, RowsOf(sch), MaxRows) : sch \in Schemas}
            \cup {EmptySheet, IdColumn}
            \cup {[f EXCEPT !.ext = "xls"] : f \in CsvFiles(<<"f">>, RowsOf(<<"f">>), 1)})
Next == RunFullAnalysis
Spec == Init /\ [][Next]_vars

\* The loader: both entry points on a file of every extension, readable
\* (with what it holds) or not
InitLoad ==
    StartOn({[f EXCEPT !.ext = ext, !.ok = ok] :
                f \in {EmptySheet} \cup CsvFiles(<<"f">>, RowsOf(<<"f">>), MaxLoadRows)
                          \cup CsvFiles(<<"s">>, RowsOf(<<"s">>), MaxLoadRows),
                ext \in Exts, ok \in BOOLEAN})
NextLoad == RunFullAnalysis \/ ApplyCleaning(SaveOutcomes)
SpecLoad == InitLoad /\ [][NextLoad]_vars

\* Cleaning, once and again on what the first pass saved
InitClean == StartOn(CsvFiles(<<"f", "s">>, CleanRows, MaxCleanRows))
NextClean == ApplyCleaning({"written"}) \/ ApplyCleaningAgain
SpecClean == InitClean /\ [][NextClean]_vars

\* The four steps of cleaning on tables in which each of them finds work
InitSteps ==
    StartOn(SubTables(<<"f", "s">>, StepRows, MaxStepRows)
            \cup SubTables(<<"f", "f">>, OutlierPairs, MaxStepRows))
NextSteps == ApplyCleaning({"written"})
SpecSteps == InitSteps /\ [][NextSteps]_vars

\* The analysis of one column of whole numbers, some far from the others
InitIqr == StartOn(CsvFiles(<<"q">>, RowsOf(<<"q">>), MaxIqrRows))
NextIqr == RunFullAnalysis
SpecIqr == InitIqr /\ [][NextIqr]_vars

\* The correlations of three numeric columns, by every method
InitCorr == StartOn(CsvFiles(<<"h", "h", "h">>, RowsOf(<<"h", "h", "h">>), MaxCorrRows))
NextCorr == CalculateCorrelations
SpecCorr == InitCorr /\ [][NextCorr]_vars


----------------------------------------------------------------------------
(* The EDA routes (apps/api/src/routes/eda.py, routes/jobs.py) on one dataset
   version.  Several workers serve the requests and run the background tasks
   against one database, so a handler and a task interleave between their
   database statements: a step of the model is what a handler does from one
   query or commit to its next. *)

MaxRequests == 2
MaxRouteRows == 1

\* status of an EDAResult row, eda being None when the query found no row
\* (routes/eda.py); a dictionary is true when it is not None (none the
\* processor returns is empty), a message when it is not empty
determine_status(eda) ==
    IF eda = None THEN "not_started"
    ELSE IF eda.summaryJson # None
            /\ "error" \in DOMAIN eda.summaryJson /\ eda.summaryJson.error # ""
    THEN "failed"
    ELSE IF eda.resultS3Key = "pending" THEN "pending"
    ELSE IF eda.resultS3Key = "running" THEN "running"
    ELSE IF eda.summaryJson # None THEN "completed"
    ELSE "pending"

\* The copy of the function in routes/jobs.py
determine_eda_status(eda) ==
    IF eda = None THEN "not_started"
    ELSE IF eda.summaryJson # None
            /\ "error" \in DOMAIN eda.summaryJson /\ eda.summaryJson.error # ""
    THEN "failed"
    ELSE IF eda.resultS3Key = "pending" THEN "pending"
    ELSE IF eda.resultS3Key = "running" THEN "running"
    ELSE IF eda.summaryJson # None THEN "completed"
    ELSE "pending"

\* The row of the EDAResult table with the given id
RecordOf(rows, id) == rows[CHOOSE i \in 1..Len(rows) : rows[i].id = id]

\* db.query(EDAResult).filter(datasetVersionId == ...).first(): None, or one
\* of the rows of the version (the query has no ORDER BY)
FirstOf(rows) == IF rows = <<>> THEN {None} ELSE {rows[i] : i \in 1..Len(rows)}

\* The response of trigger_eda_analysis when the analysis is not started again
AlreadyExists(existing_eda) ==
    [message |-> "EDA already exists",
     eda_id |-> existing_eda.id,
     status |-> determine_status(existing_eda)]

\* existing_eda.resultS3Key = "pending"; existing_eda.summaryJson = None;
\* db.commit(): the UPDATE of the row sets the attributes whose new value
\* differs from the one the request loaded
ResetRow(row, loaded) ==
    [row EXCEPT !.resultS3Key = IF loaded.resultS3Key = "pending" THEN @ ELSE "pending",
                !.summaryJson = IF loaded.summaryJson = None THEN @ ELSE None]

\* The rows after the commit of a request that goes on to queue a task: the
\* row it loaded is reset, or a row with a new id is added
RowsAfterTrigger(rows, loaded) ==
    IF loaded # None
    THEN [i \in 1..Len(rows) |-> IF rows[i].id = loaded.id THEN ResetRow(rows[i], loaded)
                                 ELSE rows[i]]
    ELSE Append(rows, [id |-> Len(rows) + 1, resultS3Key |-> "pending", summaryJson |-> None])

\* The dictionary stored and resultS3Key left as the task found it
StoredSummaryOnly(row, results) ==
    IF "error" \in DOMAIN results
    THEN [row EXCEPT !.summaryJson = [error |-> results.error]]
    ELSE [row EXCEPT !.summaryJson = results]

\* What run_eda_analysis stores for the dictionary the processor returned
StoredResult(row, results) ==
    IF "error" \in DOMAIN results
    THEN [row EXCEPT !.summaryJson = [error |-> results.error], !.resultS3Key = "failed"]
    ELSE [row EXCEPT !.summaryJson = results, !.resultS3Key = "s3://results"]

\* str(e) of the exception a run may raise: some text, or none (an exception
\* raised without arguments)
ExceptionTexts == {"Exception", ""}

\* The except clause of run_eda_analysis
StoredFailure(row, message) ==
    [row EXCEPT !.summaryJson = [error |-> message], !.resultS3Key = "failed"]

\* get_completed_results: the stored report of the row that the query of the
\* version returns, or the 404 of a version without completed results
get_completed_results(rows) ==
    {IF eda_result = None \/ determine_status(eda_result) # "completed"
     THEN [status_code |-> 404, detail |-> "EDA results not found"]
     ELSE eda_result.summaryJson : eda_result \in FirstOf(rows)}

\* The rows with the row of the given id replaced
WithRow(rows, row) == [i \in 1..Len(rows) |-> IF rows[i].id = row.id THEN row ELSE rows[i]]

\* POST /datasets/{id}/analyze up to its answer or to its commit: the request
\* reads the row of the active version, and answers at once when there is one
\* that has not failed and force_reanalyze is not set
TriggerQuery ==
    /\ Len(requests) < MaxRequests
    /\ \E force_reanalyze \in BOOLEAN, existing_eda \in FirstOf(records) :
          requests' =
              Append(requests,
                     IF existing_eda # None /\ determine_status(existing_eda) # "failed"
                         /\ ~force_reanalyze
                     THEN [force |-> force_reanalyze, loaded |-> existing_eda, at |-> "done",
                           response |-> AlreadyExists(existing_eda)]
                     ELSE [force |-> force_reanalyze, loaded |-> existing_eda, at |-> "queried",
                           response |-> None])
    /\ UNCHANGED <<records, tasks>>
    /\ UNCHANGED processor

\* The rest of the request: the row is reset or created, committed, and the
\* background task is added
TriggerCommit ==
    /\ \E r \in 1..Len(requests) :
          /\ requests[r].at = "queried"
          /\ records' = RowsAfterTrigger(records, requests[r].loaded)
          /\ tasks' = Append(tasks, [eda_id |-> IF requests[r].loaded # None
                                                THEN requests[r].loaded.id
                                                ELSE Len(records) + 1,
                                     request |-> r,
                                     at |-> "queued"])
          /\ requests' = [requests EXCEPT
                             ![r].at = "done",
                             ![r].response =
                                 [message |-> "EDA analysis started",
                                  eda_id |-> IF requests[r].loaded # None
                                             THEN requests[r].loaded.id
                                             ELSE Len(records) + 1,
                                  status |-> "pending"]]
    /\ UNCHANGED processor

\* run_eda_analysis up to its first commit: the row is marked running
StartTask ==
    /\ \E t \in 1..Len(tasks) :
          /\ tasks[t].at = "queued"
          /\ tasks' = [tasks EXCEPT ![t].at = "running"]
          /\ records' = WithRow(records,
                                [RecordOf(records, tasks[t].eda_id) EXCEPT
                                    !.resultS3Key = "running"])
    /\ UNCHANGED requests
    /\ UNCHANGED processor

\* The rest of run_eda_analysis: the processor analyses the file and the
\* outcome is stored; when the commit of the outcome raises, the except
\* clause stores the failure
FinishTask ==
    /\ \E t \in 1..Len(tasks), lib \in Libs, committed \in BOOLEAN, e \in ExceptionTexts :
          /\ tasks[t].at = "running"
          /\ tasks' = [tasks EXCEPT ![t].at = "done"]
          /\ records' =
                 WithRow(records,
                         IF committed
                         THEN StoredResult(RecordOf(records, tasks[t].eda_id),
                                           run_full_analysis(file, lib).result)
                         ELSE StoredFailure(RecordOf(records, tasks[t].eda_id), e))
    /\ UNCHANGED requests
    /\ UNCHANGED processor

\* The stored artifact of the version: a CSV file of one column, an empty
\* sheet, or a file the loader does not read
InitRoutes ==
    StartOn(CsvFiles(<<"f">>, {<<Num(1)>>}, MaxRouteRows)
            \cup {EmptySheet, [EmptySheet EXCEPT !.ext = "txt"]})
NextRoutes == TriggerQuery \/ TriggerCommit \/ StartTask \/ FinishTask
SpecRoutes == InitRoutes /\ [][NextRoutes]_vars

\* The routes when every handler and every background task that has begun is
\* run on: the request that has queried commits, and the event loop runs each
\* task that was added, from its start to its end
SpecRoutesFair ==
    SpecRoutes /\ WF_vars(TriggerCommit) /\ WF_vars(StartTask) /\ WF_vars(FinishTask)
----------------------------------------------------------------------------
(* Properties *)

\* The keys of a dictionary the processor returns
Keys(r) == DOMAIN r

ReportKeys ==
    {"dataset_id", "shape", "column_types", "statistics", "correlations", "outliers",
     "quality", "analyzed_at"}

\* r is a full report of run_full_analysis; r holds nothing but a top-level error
IsFullReport(r) == Keys(r) = ReportKeys
IsErrorOnly(r) == Keys(r) = {"error"}

\* The file cannot be loaded: an extension that is not supported, a file that
\* cannot be read or parsed, or no table after the load
LoadFails ==
    \/ file.ext \notin {"csv", "xlsx", "xls"}
    \/ ~file.ok
    \/ df = None

\* C1: when load_data fails, run_full_analysis and apply_cleaning return
\* nothing but the top-level error 'Failed to load dataset' (no column_types,
\* statistics, correlations, outliers, quality, logs or row counts), run no
\* analysis or cleaning step, and write no file.
C1_LoadFailureReturnsOnlyError ==
    (pc \in {"analyzed", "cleaned"} /\ LoadFails) =>
        /\ result = [error |-> "Failed to load dataset"]
        /\ steps = <<"load_data">>
        /\ saved = None

\* C1, its case: apply_cleaning was asked to save, on a readable file with an
\* extension the loader does not support, and returned only the error
C1_Witness ==
    /\ pc = "cleaned"
    /\ file.ok /\ file.ext = "parquet"
    /\ options.dropDuplicates
    /\ IsErrorOnly(result)

\* C2: run_full_analysis never propagates an exception: whatever the file and
\* whichever of its steps fails, it returns a full report or a report that
\* holds only a top-level error.
C2_AnalysisNeverRaises ==
    pc = "analyzed" => ~IsRaised(result) /\ (IsFullReport(result) \/ IsErrorOnly(result))

\* C2, its case: the table was loaded, a step after the load raised, and the
\* call returned an error report
C2_Witness ==
    /\ pc = "analyzed"
    /\ df # None
    /\ Len(steps) > 1
    /\ IsErrorOnly(result)

\* The numbers of one block of the statistics of a report
StatNumbers(block) ==
    {block[f] : f \in Keys(block) \cap {"mean", "median", "std", "min", "max", "q1", "q3", "iqr",
                                        "skewness", "kurtosis", "entropy"}}
    \cup (IF "outliers" \in Keys(block)
          THEN {block.outliers.percentage, block.outliers.lower_bound,
                block.outliers.upper_bound}
          ELSE {})

\* The numbers of the correlation block of a report: the matrix and the edges
CorrelationNumbers(block) ==
    IF "matrix" \in Keys(block)
    THEN {block.matrix[a][b] : a, b \in Keys(block.matrix)}
         \cup {block.correlations[i].correlation : i \in 1..Len(block.correlations)}
         \cup {block.correlations[i].p_value : i \in 1..Len(block.correlations)}
    ELSE {}

\* The numbers of the outlier block of a report
OutlierNumbers(block) ==
    UNION {{block.results[c].percentage, block.results[c].bounds.lower,
            block.results[c].bounds.upper} : c \in Keys(block.results)}

\* The numbers of the quality block of a report
QualityNumbers(q) ==
    {q.quality_score, q.completeness, q.missing_values.percentage, q.duplicates.percentage}
    \cup {q.missing_values.by_column[c].percentage : c \in Keys(q.missing_values.by_column)}
    \cup {q.infinite_values.by_column[c].percentage : c \in Keys(q.infinite_values.by_column)}

\* Every number of a full report
ReportNumbers(r) ==
    UNION {StatNumbers(r.statistics[c]) : c \in Keys(r.statistics)}
    \cup CorrelationNumbers(r.correlations)
    \cup OutlierNumbers(r.outliers)
    \cup QualityNumbers(r.quality)

\* C3: no report run_full_analysis returns holds a number that is not finite
\* (NaN, +Infinity, -Infinity), in the statistics of a column, the correlation
\* matrix and edges, the outlier block or the quality block.
C3_NoNonFiniteNumber ==
    (pc = "analyzed" /\ IsFullReport(result)) =>
        \A x \in ReportNumbers(result) : x.k \notin {"nan", "inf"}

\* x is a number in [0, 100]; x is the number 100
InPercentRange(x) == x.k = "fin" /\ x.den > 0 /\ 0 <= x.num /\ x.num <= 100 * x.den
IsHundred(x) == x.k = "fin" /\ x.den > 0 /\ x.num = 100 * x.den

\* run_full_analysis loaded the table and reached analyze_data_quality
QualityAnalysed ==
    /\ pc = "analyzed"
    /\ df # None
    /\ Len(steps) > 0 /\ steps[Len(steps)] = "analyze_data_quality"

\* C4: for every loaded table, with zero rows or zero columns too, the
\* quality_score analyze_data_quality returns is a number in [0, 100].
C4_QualityScoreInRange ==
    QualityAnalysed =>
        /\ IsFullReport(result)
        /\ InPercentRange(result.quality.quality_score)

\* The table has no missing cell, no row equal to an earlier row and no
\* infinite value
IsSpotless(t) ==
    /\ \A c \in 1..Len(t.cols) : \A i \in 1..Len(t.index) : t.cols[c].vals[i].k \notin {"nan", "inf"}
    /\ \A i, j \in 1..Len(t.index) :
          i < j => \E c \in 1..Len(t.cols) : t.cols[c].vals[i] # t.cols[c].vals[j]

\* C5: for every loaded table with zero missing cells, zero exact-duplicate
\* rows and zero infinite values, analyze_data_quality returns
\* quality_score = 100.
C5_SpotlessTableScoresHundred ==
    (QualityAnalysed /\ IsSpotless(df)) =>
        /\ IsFullReport(result)
        /\ IsHundred(result.quality.quality_score)

\* C6: detect_column_types gives every column of the loaded table exactly one
\* label out of numeric, categorical, datetime, text and empty: the
\* column_types of a report is a mapping whose keys are exactly the columns of
\* the table.
C6_OneLabelPerColumn ==
    (pc = "analyzed" /\ IsFullReport(result)) =>
        /\ Keys(result.column_types) = {df.cols[c].name : c \in 1..Len(df.cols)}
        /\ \A c \in Keys(result.column_types) :
              result.column_types[c] \in {"numeric", "categorical", "datetime", "text", "empty"}

\* C6, its case: a report on a table of two columns that got different labels
C6_Witness ==
    /\ pc = "analyzed"
    /\ IsFullReport(result)
    /\ Len(df.cols) = 2
    /\ result.column_types["c1"] = "numeric"
    /\ result.column_types["c2"] \in {"categorical", "datetime", "empty"}

\* The k-th smallest of the numbers xs, counted from 1
KthSmallest(xs, k) ==
    CHOOSE v \in {xs[i] : i \in 1..Len(xs)} :
        /\ Cardinality({i \in 1..Len(xs) : xs[i] < v}) < k
        /\ k <= Cardinality({i \in 1..Len(xs) : xs[i] <= v})

\* Four times the quantile a / 4 of xs by linear interpolation: the value at
\* position h / 4 = (n - 1) * a / 4 of the sorted numbers, counted from 0
Interpolated4(xs, h) ==
    4 * KthSmallest(xs, (h \div 4) + 1)
    + (IF h % 4 = 0 THEN 0
       ELSE (h % 4) * (KthSmallest(xs, (h \div 4) + 2) - KthSmallest(xs, (h \div 4) + 1)))

Quartile4(xs, a) == Interpolated4(xs, (Len(xs) - 1) * a)

\* Eight times Q1 - 1.5 * IQR and Q3 + 1.5 * IQR, from four times Q1 and Q3
ExpectedLower8(q1, q3) == 2 * q1 - 3 * (q3 - q1)
ExpectedUpper8(q1, q3) == 2 * q3 + 3 * (q3 - q1)

\* The reported number x is v / 8
IsEighths(x, v) == x.k = "fin" /\ x.den > 0 /\ 8 * x.num = v * x.den

\* The rows of a column that hold a finite number, and their numbers in any order
FiniteRows(col) == {i \in 1..Len(col.vals) : col.vals[i].k = "num"}
RECURSIVE NumbersAt(_, _)
NumbersAt(col, rows) ==
    IF rows = {} THEN <<>>
    ELSE <<col.vals[CHOOSE i \in rows : TRUE].n>>
         \o NumbersAt(col, rows \ {CHOOSE i \in rows : TRUE})

\* The finite rows of a column strictly below lower8 / 8 or above upper8 / 8
RowsOutside(col, lower8, upper8) ==
    {i \in FiniteRows(col) : 8 * col.vals[i].n < lower8 \/ 8 * col.vals[i].n > upper8}

\* The block of the iqr method flags exactly the rows out, each once, under
\* its row label and with its value
FlagsExactly(block, t, col, out) ==
    /\ block.count = Cardinality(out)
    /\ Len(block.indices) = Cardinality(out)
    /\ Len(block.values) = Cardinality(out)
    /\ {block.indices[k] : k \in 1..Len(block.indices)} = {t.index[i] : i \in out}
    /\ \A k \in 1..Len(block.indices) :
          \E i \in out : t.index[i] = block.indices[k] /\ col.vals[i].n = block.values[k]

\* The iqr block and the outlier summary of the statistics of one column are
\* right for the bounds lower8 / 8 and upper8 / 8
IqrBlockRight(block, t, col, lower8, upper8) ==
    /\ IsEighths(block.bounds.lower, lower8)
    /\ IsEighths(block.bounds.upper, upper8)
    /\ FlagsExactly(block, t, col, RowsOutside(col, lower8, upper8))

SummaryRight(stats, col, lower8, upper8) ==
    "outliers" \in Keys(stats) =>
        /\ IsEighths(stats.outliers.lower_bound, lower8)
        /\ IsEighths(stats.outliers.upper_bound, upper8)
        /\ stats.outliers.count = Cardinality(RowsOutside(col, lower8, upper8))

\* Both are right for the quartiles q1 / 4 and q3 / 4 of the column
IqrRightFor(r, t, col, q1, q3) ==
    /\ col.name \in Keys(r.outliers.results)
    /\ IqrBlockRight(r.outliers.results[col.name], t, col,
                     ExpectedLower8(q1, q3), ExpectedUpper8(q1, q3))
    /\ SummaryRight(r.statistics[col.name], col,
                    ExpectedLower8(q1, q3), ExpectedUpper8(q1, q3))

IqrRight(r, t, col) ==
    IqrRightFor(r, t, col, Quartile4(NumbersAt(col, FiniteRows(col)), 1),
                Quartile4(NumbersAt(col, FiniteRows(col)), 3))

\* C7: for every numeric column with a finite value the iqr method reports
\* the bounds lower = Q1 - 1.5 * IQR and upper = Q3 + 1.5 * IQR, Q1 and Q3 by
\* linear interpolation over the finite values, and its count, indices and
\* values are exactly those of the values strictly below lower or strictly
\* above upper, as is the outlier summary of the column's statistics; of
\* 1, 2, 3, 4, 100 only 100 is flagged.
C7_IqrBoundsAndOutliers ==
    (pc = "analyzed" /\ IsFullReport(result)) =>
        \A c \in 1..Len(df.cols) :
            (df.cols[c].dtype \in {"int64", "float64"} /\ FiniteRows(df.cols[c]) # {})
                => IqrRight(result, df, df.cols[c])

\* C7, its case: the column 1, 2, 3, 4, 100 was analysed and 100, in row 4,
\* is the one value flagged, by bounds -1 and 7
C7_Witness ==
    /\ pc = "analyzed"
    /\ IsFullReport(result)
    /\ [i \in 1..Len(df.index) |-> df.cols[1].vals[i].n] = <<1, 2, 3, 4, 100>>
    /\ result.outliers.results["c1"].values = <<100>>
    /\ result.outliers.results["c1"].indices = <<4>>
    /\ IsEighths(result.outliers.results["c1"].bounds.lower, -8)
    /\ IsEighths(result.outliers.results["c1"].bounds.upper, 56)
    /\ result.statistics["c1"].outliers.count = 1

\* The two columns of an edge
EdgeColumns(e) == {e.column1, e.column2}

\* C8: the edge list calculate_correlations returns holds no self-pair
\* (column1 = column2), holds each unordered pair of columns at most once,
\* and both columns of every edge are in the 'columns' list returned.
C8_EdgesAreDistinctPairs ==
    (pc = "correlated" /\ "correlations" \in Keys(result)) =>
        /\ \A i \in 1..Len(result.correlations) :
              /\ result.correlations[i].column1 # result.correlations[i].column2
              /\ EdgeColumns(result.correlations[i])
                     \subseteq {result.columns[k] : k \in 1..Len(result.columns)}
        /\ \A i, j \in 1..Len(result.correlations) :
              i # j => EdgeColumns(result.correlations[i]) # EdgeColumns(result.correlations[j])

\* C8, its case: three columns qualified and every pair of them gave an edge
C8_Witness ==
    /\ pc = "correlated"
    /\ "correlations" \in Keys(result)
    /\ Len(result.columns) = 3
    /\ Len(result.correlations) = 3

\* The options turn on dropDuplicates and no other step
DedupOnly(o) ==
    o.dropDuplicates /\ ~o.fillMissing /\ ~o.standardizeText /\ ~o.removeOutliers

\* The rows of a table that equal an earlier row in every column
LaterCopies(t) ==
    {j \in 1..Len(t.index) :
        \E i \in 1..(j - 1) : \A c \in 1..Len(t.cols) : t.cols[c].vals[i] = t.cols[c].vals[j]}

\* The logs hold a Deduplication entry with count n
HasDedupEntry(logs, n) ==
    \E k \in 1..Len(logs) : logs[k].action = "Deduplication" /\ logs[k].count = n

\* C9: apply_cleaning with dropDuplicates and no other option, on a table of
\* M rows of which N equal an earlier row, returns originalRows = M,
\* finalRows = M - N, droppedDuplicates = N and, when a row was dropped, a
\* Deduplication log entry with count N.
C9_DedupCounts ==
    (pc = "cleaned" /\ DedupOnly(options)) =>
        /\ "originalRows" \in Keys(result)
        /\ result.originalRows = Len(df.index)
        /\ result.finalRows = Len(df.index) - Cardinality(LaterCopies(df))
        /\ result.droppedDuplicates = Cardinality(LaterCopies(df))
        /\ (Cardinality(LaterCopies(df)) > 0
               => HasDedupEntry(result.logs, Cardinality(LaterCopies(df))))

\* C10: cleaning is idempotent: apply_cleaning run again with the same options
\* on the table its first pass produced drops, fills, standardizes and
\* removes nothing, returns empty logs, and gives every column the label it
\* had after the first pass.
C10_CleaningIsIdempotent ==
    (pc = "recleaned" /\ "logs" \in Keys(first)) =>
        /\ "logs" \in Keys(result)
        /\ result.droppedDuplicates = 0
        /\ result.filledMissing = 0
        /\ result.textStandardized = 0
        /\ result.outliersCapped = 0
        /\ result.finalRows = result.originalRows
        /\ result.logs = <<>>
        /\ result.intents = first.intents


----------------------------------------------------------------------------
(* The loader and the extension of the file *)

\* C11: a readable file whose extension is .parquet is loaded as a table, as
\* a .csv or an .xlsx/.xls file is: after run_full_analysis the processor
\* holds the table of the file and the call returned a full report.
C11_ParquetIsLoaded ==
    (pc = "analyzed" /\ file.ext = "parquet" /\ file.ok /\ Len(file.table.cols) > 0) =>
        /\ df = file.table
        /\ IsFullReport(result)

\* The extensions the loader is specified to support
SpecifiedExts == {"csv", "xlsx", "xls", "parquet"}

\* C12: for a file whose extension is none of the supported ones, load_data
\* fails without reading the file (readable or not, whatever it holds, the
\* processor's table stays unset and no step after the load runs) and
\* run_full_analysis returns a top-level error.
C12_UnknownExtensionFailsFast ==
    (pc = "analyzed" /\ file.ext \notin SpecifiedExts) =>
        /\ df = None
        /\ steps = <<"load_data">>
        /\ IsErrorOnly(result)

\* C12, its case: a readable file that holds a table with a row, under an
\* extension that is not supported, was given to run_full_analysis
C12_Witness ==
    /\ pc = "analyzed"
    /\ file.ext = "txt"
    /\ file.ok
    /\ Len(file.table.index) > 0
    /\ IsErrorOnly(result)

----------------------------------------------------------------------------
(* The status of the stored analysis *)

\* The stored report carries an error
HoldsError(eda) == eda.summaryJson # None /\ "error" \in DOMAIN eda.summaryJson

\* C13: determine_status maps the stored EDA record to exactly one status:
\* not_started when no record exists, pending or running while the record
\* holds the corresponding placeholder, completed when a report without error
\* is stored, failed when a report with an error is stored; the copy of the
\* function in the jobs routes gives the same status for every record.
C13_StatusFollowsRecord ==
    /\ determine_status(None) = "not_started"
    /\ determine_eda_status(None) = "not_started"
    /\ \A i \in 1..Len(records) :
          /\ determine_eda_status(records[i]) = determine_status(records[i])
          /\ records[i].resultS3Key = "pending" => determine_status(records[i]) = "pending"
          /\ records[i].resultS3Key = "running" => determine_status(records[i]) = "running"
          /\ (records[i].resultS3Key \notin {"pending", "running"} /\ HoldsError(records[i]))
                 => determine_status(records[i]) = "failed"
          /\ (records[i].resultS3Key \notin {"pending", "running"}
              /\ records[i].summaryJson # None /\ ~HoldsError(records[i]))
                 => determine_status(records[i]) = "completed"

\* The tasks that are queued or executing
LiveTasks == {t \in 1..Len(tasks) : tasks[t].at \in {"queued", "running"}}

\* C14: for one dataset version at most one analysis task is queued or
\* executing at any time and at most one EDA record exists, under every
\* interleaving of analyze requests (with or without force_reanalyze) and
\* background tasks.
C14_OneTaskOneRecord ==
    /\ Cardinality(LiveTasks) <= 1
    /\ Len(records) <= 1

----------------------------------------------------------------------------
(* Errors at the smallest scope *)

\* A column labelled numeric that holds no finite value
NumericWithoutValue(col) ==
    detect_single_column_type(col) = "numeric" /\ Len(FiniteValues(col.vals)) = 0

\* The table was loaded and one of the two local failures happens in it
LocalFailure ==
    /\ pc = "analyzed"
    /\ df # None
    /\ \/ \E c \in 1..Len(df.cols) : NumericWithoutValue(df.cols[c])
       \/ Len(ValidCols(df)) < 2

\* C15: when a numeric-labelled column has no finite value, or fewer than two
\* numeric columns qualify for correlation, run_full_analysis still returns a
\* full report without a top-level error, in which the statistics block of
\* exactly the columns without a finite value holds an error, and the
\* correlations block holds an error exactly when fewer than two columns
\* qualify.
C15_ErrorsStayLocal ==
    LocalFailure =>
        /\ IsFullReport(result)
        /\ \A c \in 1..Len(df.cols) :
              "error" \in Keys(result.statistics[df.cols[c].name])
                  <=> NumericWithoutValue(df.cols[c])
        /\ "error" \in Keys(result.correlations) <=> Len(ValidCols(df)) < 2
        /\ "error" \notin Keys(result.outliers)
        /\ "error" \notin Keys(result.quality)

----------------------------------------------------------------------------
(* Protected columns *)

\* apply_cleaning returned its report and wrote the cleaned table
Cleaned == pc = "cleaned" /\ "logs" \in Keys(result) /\ saved # None

\* The columns of a table the options protect
ProtectedCols(t, o) == {c \in 1..Len(t.cols) : t.cols[c].name \in o.protectedColumns}

\* After the rows kept, every protected column of the cleaned table holds the
\* cells it held in the table loaded, with its dtype
ProtectedCellsKept(t, out, o, keep) ==
    \A c \in ProtectedCols(t, o) :
        /\ out.cols[c].vals = Take(t.cols[c].vals, PosWhere(keep))
        /\ Len(out.index) > 0 => out.cols[c].dtype = t.cols[c].dtype

\* Every numeric column of a table is protected
NumericAllProtected(t, o) ==
    \A c \in 1..Len(t.cols) : IsNumericDtype(t.cols[c].dtype) => c \in ProtectedCols(t, o)

\* C16: a column named in protectedColumns is left out of steps 2 to 4: the
\* cleaned table holds, for some choice of the rows kept, the cells of every
\* protected column as they were loaded (none filled, none stripped), and when
\* every numeric column is protected removeOutliers removes no row.
C16_ProtectedColumnsUntouched ==
    Cleaned =>
        /\ \E keep \in [1..Len(df.index) -> BOOLEAN] :
              ProtectedCellsKept(df, saved.table, options, keep)
        /\ NumericAllProtected(df, options) =>
              /\ result.outliersCapped = 0
              /\ result.finalRows = result.originalRows - result.droppedDuplicates

\* C16, its case: the three steps are asked for on a table whose two columns
\* are protected, the number column with a missing cell and a value outside
\* its IQR bounds, the text column with a missing cell and a cell to strip
C16_Witness ==
    /\ Cleaned
    /\ options.fillMissing /\ options.standardizeText /\ options.removeOutliers
    /\ options.protectedColumns = {"c1", "c2"}
    /\ MissingIn(df.cols[1]) > 0
    /\ OutlierRows(df.cols[1]) # {}
    /\ df.cols[2].dtype = "object"
    /\ MissingIn(df.cols[2]) > 0
    /\ StripChanges(df.cols[2]) > 0

----------------------------------------------------------------------------
(* Labels of the column type detector *)

\* The column holds a value after its missing values are dropped
HasValue(col) == Len(NonNull(col.vals)) > 0

\* Every non-missing value of a column is a whole number (the numbers of the
\* tables here are whole, an infinity is not)
HoldsOnlyIntegers(col) == \A i \in 1..Len(col.vals) : col.vals[i].k \in {"num", "nan"}

\* The unique-value ratio of the non-missing values of a column is below 0.5
LowUniqueRatio(col) == 2 * NUnique(col.vals) < Len(NonNull(col.vals))

\* The mean length of the non-missing values of a column, as strings, is above
\* 50 characters
LongOnAverage(col) ==
    SumSeq([i \in 1..Len(NonNull(col.vals)) |-> Len(AsStr(NonNull(col.vals)[i], col.dtype))])
        > 50 * Len(NonNull(col.vals))

\* Every non-missing value of a column parses as a timestamp
AllParse(col) == \A i \in 1..Len(col.vals) : col.vals[i].k = "nan" \/ ParsesAsDatetime(col.vals[i])

\* C17: a column of numeric storage type that holds a non-missing value is
\* labelled categorical exactly when it holds only integers, the unique-value
\* ratio of its non-missing values is below 0.5 and its unique count is below
\* 50, and numeric in every other case.
C17_NumericStorageLabel ==
    (pc = "analyzed" /\ IsFullReport(result)) =>
        \A c \in 1..Len(df.cols) :
            (IsNumericDtype(df.cols[c].dtype) /\ HasValue(df.cols[c])) =>
                result.column_types[df.cols[c].name] =
                    IF /\ HoldsOnlyIntegers(df.cols[c])
                       /\ LowUniqueRatio(df.cols[c])
                       /\ NUnique(df.cols[c].vals) < 50
                    THEN "categorical"
                    ELSE "numeric"

\* C18: a column of non-numeric storage type that holds a non-missing value is
\* labelled by the priority chain over its non-missing values: datetime when
\* every value parses as a timestamp, else categorical when the unique-value
\* ratio is below 0.5, else text when the mean string length exceeds 50, else
\* categorical.
C18_NonNumericStorageLabel ==
    (pc = "analyzed" /\ IsFullReport(result)) =>
        \A c \in 1..Len(df.cols) :
            (~IsNumericDtype(df.cols[c].dtype) /\ HasValue(df.cols[c])) =>
                result.column_types[df.cols[c].name] =
                    IF AllParse(df.cols[c]) THEN "datetime"
                    ELSE IF LowUniqueRatio(df.cols[c]) THEN "categorical"
                    ELSE IF LongOnAverage(df.cols[c]) THEN "text"
                    ELSE "categorical"

----------------------------------------------------------------------------
(* The order of the cleaning steps *)

StepActions == <<"Deduplication", "Imputation", "Standardization", "Outlier Removal">>

\* The logs hold an entry of an action
HasEntry(logs, action) == \E k \in 1..Len(logs) : logs[k].action = action

\* The entries of the logs are of different steps and come in the order of
\* the steps
InStepOrder(logs) ==
    \E at \in [1..Len(logs) -> 1..Len(StepActions)] :
        /\ \A k \in 1..Len(logs) : logs[k].action = StepActions[at[k]]
        /\ \A j, k \in 1..Len(logs) : j < k => at[j] < at[k]

\* The table and the counts before step 2, when the table t was loaded
AfterDedup(t, o) ==
    [df_clean |-> IF o.dropDuplicates THEN drop_duplicates(t) ELSE t,
     dropped_duplicates |-> 0, filled_missing |-> 0, text_standardized |-> 0,
     outliers_capped |-> 0]

\* An entry of each step is in the logs only if the step was asked for and the
\* table it left is not the table it was given: a is the table and the counts
\* before step 2, b before step 3, c before step 4
EntriesTellChanges(logs, t, o, a, b, c) ==
    /\ HasEntry(logs, "Deduplication") => o.dropDuplicates /\ a.df_clean # t
    /\ HasEntry(logs, "Imputation") => o.fillMissing /\ b.df_clean # a.df_clean
    /\ HasEntry(logs, "Standardization") => o.standardizeText /\ c.df_clean # b.df_clean
    /\ HasEntry(logs, "Outlier Removal")
          => o.removeOutliers /\ RemoveOutliers(c, o).df_clean # c.df_clean
    /\ saved = SavedFile(RemoveOutliers(c, o).df_clean)

StepsInOrder(logs, t, o, a, b) ==
    EntriesTellChanges(logs, t, o, a, b, StandardizeText(b, o))

\* C19: apply_cleaning runs the steps asked for in the order deduplication,
\* imputation, text standardization, outlier removal, each on the table the
\* step before it left, which gives the table written; the log entries come
\* in that order, at most one of each step, and a step that left its table as
\* it found it has no entry.
C19_StepsInOrder ==
    Cleaned =>
        /\ steps = CleaningStepsRun(options)
        /\ InStepOrder(result.logs)
        /\ StepsInOrder(result.logs, df, options, AfterDedup(df, options),
                        FillMissing(AfterDedup(df, options), options))

----------------------------------------------------------------------------
(* Outlier removal, column after column *)

\* Of the rows given, those whose value in a column lies outside the bounds
\* that the quartiles q1 / 4 and q3 / 4 give
OutsideFor(col, rows, q1, q3) ==
    rows \cap RowsOutside(col, ExpectedLower8(q1, q3), ExpectedUpper8(q1, q3))

\* Of the rows given, those a column puts out: none when the column is not
\* numeric, is protected or holds no number in these rows, else those
\* outside the IQR bounds of its values in these rows
PutOut(col, rows, o) ==
    IF \/ ~IsNumericDtype(col.dtype)
       \/ col.name \in o.protectedColumns
       \/ rows \cap FiniteRows(col) = {}
    THEN {}
    ELSE OutsideFor(col, rows, Quartile4(NumbersAt(col, rows \cap FiniteRows(col)), 1),
                    Quartile4(NumbersAt(col, rows \cap FiniteRows(col)), 3))

\* The rows that survive the columns from the c-th on, in table order, each
\* column judging the rows the columns before it left
RECURSIVE SurvivorsFrom(_, _, _, _)
SurvivorsFrom(t, o, c, rows) ==
    IF c > Len(t.cols) THEN rows
    ELSE SurvivorsFrom(t, o, c + 1, rows \ PutOut(t.cols[c], rows, o))

\* Step 4 on the table t that step 3 left comes to the rows kept
OutliersRemoved(t, kept) ==
    /\ result.outliersCapped = Len(t.index) - Cardinality(kept)
    /\ result.finalRows = Cardinality(kept)
    /\ saved = SavedFile(KeepRows(t, PosWhere([r \in 1..Len(t.index) |-> r \in kept])))

OutliersRemovedFrom(t) == OutliersRemoved(t, SurvivorsFrom(t, options, 1, 1..Len(t.index)))

\* C20: with removeOutliers the numeric columns that are not protected are
\* taken in table order, each with the IQR bounds of its values in the rows
\* the columns before it left; outliersCapped is the number of rows removed,
\* each counted once, and the rows left are the table written.
C20_OutliersColumnByColumn ==
    (Cleaned /\ options.removeOutliers) =>
        OutliersRemovedFrom(
            StandardizeText(FillMissing(AfterDedup(df, options), options), options).df_clean)

\* C20, its case: the first column puts a row out, and the second column,
\* which has no value outside its bounds in the table loaded, puts out another
\* one on the rows left
C20_Witness ==
    /\ Cleaned
    /\ options.removeOutliers /\ ~options.dropDuplicates
    /\ options.protectedColumns = {}
    /\ df.cols[2].dtype = "float64"
    /\ Cardinality(OutlierRows(df.cols[1])) = 1
    /\ OutlierRows(df.cols[2]) = {}
    /\ result.outliersCapped = 2

----------------------------------------------------------------------------
(* Imputation *)

\* The cells of two columns that differ
CellsChanged(before, after) ==
    Cardinality({i \in 1..Len(before.vals) : before.vals[i] # after.vals[i]})

\* Twice the median of a column whose non-missing values are all numbers
Median2(xs) == KthSmallest(xs, (Len(xs) + 1) \div 2) + KthSmallest(xs, (Len(xs) + 2) \div 2)

\* v is a most frequent one of the non-missing values of a column
IsMostFrequent(v, col) ==
    /\ v.k # "nan"
    /\ CountOf(col.vals, v) > 0
    /\ \A i \in 1..Len(col.vals) :
          col.vals[i].k # "nan" => CountOf(col.vals, col.vals[i]) <= CountOf(col.vals, v)

\* v is what the claim fills a missing cell of a column with: the median of
\* a numeric-labelled column (told here when its values are all numbers), a
\* most frequent value of another column, Unknown when there is no value
IsFillValue(v, col) ==
    IF detect_single_column_type(col) = "numeric"
    THEN v.k # "nan"
         /\ (InfIn(col) = 0 => v.k = "num" /\ 2 * v.n = Median2(NumbersAt(col, FiniteRows(col))))
    ELSE IF Len(NonNull(col.vals)) = 0 THEN v = Str(<<"U", "n", "k", "n", "o", "w", "n">>)
    ELSE IsMostFrequent(v, col)

\* Step 2 made the column after of the column before: no cell is missing,
\* the cells that were missing hold the fill value and the others are kept
FilledRight(before, after) ==
    \A i \in 1..Len(before.vals) :
        IF before.vals[i].k = "nan" THEN IsFillValue(after.vals[i], before)
        ELSE after.vals[i] = before.vals[i]

\* Step 2 made the table and counts b of a
FillRight(a, b, o) ==
    /\ \A c \in 1..Len(a.df_clean.cols) :
          a.df_clean.cols[c].name \notin o.protectedColumns
              => FilledRight(a.df_clean.cols[c], b.df_clean.cols[c])
    /\ result.filledMissing =
          SumSeq([c \in 1..Len(a.df_clean.cols) |->
                     CellsChanged(a.df_clean.cols[c], b.df_clean.cols[c])])

\* C21: with fillMissing, after step 2 no column that is not protected holds
\* a missing value: every cell that was missing holds the median of its
\* column when the column is labelled numeric, and otherwise the most
\* frequent value of its column, or Unknown when the column has no value;
\* filledMissing is the number of cells filled.
C21_FillLeavesNothingMissing ==
    (Cleaned /\ options.fillMissing) =>
        FillRight(AfterDedup(df, options), FillMissing(AfterDedup(df, options), options), options)

----------------------------------------------------------------------------
(* Text standardization *)

\* The cell is a text with whitespace at one of its ends
HasOuterSpace(v) == v.k = "str" /\ Strip(v.s) # v.s

\* Step 3 made the column after of the column before: a cell differs only if
\* it was a text with whitespace at an end, and a missing cell is missing
StrippedRight(before, after) ==
    \A i \in 1..Len(before.vals) :
        /\ after.vals[i] # before.vals[i] => HasOuterSpace(before.vals[i])
        /\ before.vals[i].k = "nan" => after.vals[i].k = "nan"

\* Step 3 made the table and counts c of b
StripRight(b, c) ==
    /\ \A k \in 1..Len(b.df_clean.cols) : StrippedRight(b.df_clean.cols[k], c.df_clean.cols[k])
    /\ result.textStandardized =
          SumSeq([k \in 1..Len(b.df_clean.cols) |->
                     CellsChanged(b.df_clean.cols[k], c.df_clean.cols[k])])
    /\ \A k \in 1..Len(result.logs) :
          result.logs[k].action = "Standardization"
              => result.logs[k].count = result.textStandardized

StripRightFrom(b, o) == StripRight(b, StandardizeText(b, o))

\* C22: with standardizeText, step 3 changes only cells whose text has
\* whitespace at its start or end; a cell that was missing before the step is
\* missing after it, and textStandardized, with the count of the
\* Standardization log entry, is the number of cells that differ before and
\* after the step.
C22_StripChangesOnlyPaddedCells ==
    (Cleaned /\ options.standardizeText) =>
        StripRightFrom(FillMissing(AfterDedup(df, options), options), options)

----------------------------------------------------------------------------
(* Labels of the columns of the outlier and correlation blocks *)

\* The columns a report names in its outlier results and correlation edges
OutlierColumns(r) == Keys(r.outliers.results)
EdgeEnds(r) ==
    IF "correlations" \in Keys(r.correlations)
    THEN UNION {EdgeColumns(r.correlations.correlations[k]) :
                   k \in 1..Len(r.correlations.correlations)}
    ELSE {}

\* C23: in every report of run_full_analysis, each column that is a key of
\* outliers.results or an end of a correlation edge has the label numeric in
\* the column_types of the same report.
C23_AnalysedColumnsAreNumeric ==
    (pc = "analyzed" /\ IsFullReport(result)) =>
        \A c \in OutlierColumns(result) \cup EdgeEnds(result) :
            result.column_types[c] = "numeric"

----------------------------------------------------------------------------
(* Order of the correlation edges *)

\* The place of a column among the columns a correlation report is about
ColumnAt(r, name) == CHOOSE k \in 1..Len(r.columns) : r.columns[k] = name

\* The edge e is generated before the edge f: its pair of column places
\* (i, j) comes first in lexicographic order
GeneratedBefore(r, e, f) ==
    \/ ColumnAt(r, e.column1) < ColumnAt(r, f.column1)
    \/ /\ ColumnAt(r, e.column1) = ColumnAt(r, f.column1)
       /\ ColumnAt(r, e.column2) < ColumnAt(r, f.column2)

\* |e.correlation| > |f.correlation| and |e.correlation| = |f.correlation|
Stronger(e, f) ==
    Abs(e.correlation.num) * f.correlation.den > Abs(f.correlation.num) * e.correlation.den
AsStrong(e, f) ==
    Abs(e.correlation.num) * f.correlation.den = Abs(f.correlation.num) * e.correlation.den

\* C24: the edges of a correlation report come in the order of non-increasing
\* absolute coefficient, and two edges of one absolute coefficient come in the
\* order their pairs (i, j), i < j, were generated, which is lexicographic.
C24_EdgesByStrength ==
    (pc = "correlated" /\ "correlations" \in Keys(result)) =>
        \A i, j \in 1..Len(result.correlations) :
            i < j =>
                /\ ColumnAt(result, result.correlations[i].column1)
                       < ColumnAt(result, result.correlations[i].column2)
                /\ \/ Stronger(result.correlations[i], result.correlations[j])
                   \/ /\ AsStrong(result.correlations[i], result.correlations[j])
                      /\ GeneratedBefore(result, result.correlations[i], result.correlations[j])

\* C24, its case: the pair generated last has the strongest coefficient and
\* comes first, and the two other pairs, of one absolute coefficient, follow
\* in the order they were generated
C24_Witness ==
    /\ pc = "correlated"
    /\ "correlations" \in Keys(result)
    /\ Len(result.correlations) = 3
    /\ result.correlations[1].column1 = "c2" /\ result.correlations[1].column2 = "c3"
    /\ result.correlations[2].column1 = "c1" /\ result.correlations[2].column2 = "c2"
    /\ result.correlations[3].column1 = "c1" /\ result.correlations[3].column2 = "c3"
    /\ Stronger(result.correlations[1], result.correlations[2])
    /\ AsStrong(result.correlations[2], result.correlations[3])

----------------------------------------------------------------------------
(* Failed runs *)

\* A step in which the task t ends its run with an error stored: the error
\* the processor returned, or the text of the exception the run raised
EndsInError(t) ==
    /\ t <= Len(tasks)
    /\ tasks[t].at = "running"
    /\ tasks'[t].at = "done"
    /\ "error" \in DOMAIN RecordOf(records', tasks[t].eda_id).summaryJson

\* The row is reported failed and no result endpoint serves a report from it
ReportedFailed(row) ==
    /\ determine_status(row) = "failed"
    /\ determine_eda_status(row) = "failed"
    /\ \A r \in get_completed_results(<<row>>) : "status_code" \in DOMAIN r /\ r.status_code = 404

\* C25: when a run of run_eda_analysis ends with an error of the processor or
\* with an exception, whatever its message, the record is then reported
\* failed, not completed, and the result endpoints serve no report for it.
C25_FailedRunIsReportedFailed ==
    [][\A t \in 1..MaxRequests :
           EndsInError(t) => ReportedFailed(RecordOf(records', tasks[t].eda_id))]_vars

----------------------------------------------------------------------------
(* Duplicates after cleaning *)

\* C26: after apply_cleaning with dropDuplicates, whatever the other options
\* are, no two rows of the cleaned table are identical.
C26_NoIdenticalRowsLeft ==
    (Cleaned /\ options.dropDuplicates) =>
        LaterCopies(cleaning_steps(df, options).df_clean) = {}

----------------------------------------------------------------------------
(* Row counts *)

\* C27: in every successful result of apply_cleaning the row counts balance:
\* finalRows = originalRows - droppedDuplicates - outliersCapped, originalRows
\* being the rows of the table loaded and finalRows the rows of the cleaned
\* table, for every table, every combination of options and every set of
\* protected columns.
C27_RowCountsBalance ==
    Cleaned =>
        /\ result.originalRows = Len(df.index)
        /\ result.finalRows = Len(saved.table.index)
        /\ result.finalRows =
               result.originalRows - result.droppedDuplicates - result.outliersCapped

\* Duplicates dropped and outlier rows removed in one run, a column protected
C27_Witness ==
    /\ Cleaned
    /\ result.droppedDuplicates > 0
    /\ result.outliersCapped > 0
    /\ options.protectedColumns = {"c2"}
    /\ options.fillMissing
    /\ options.standardizeText

----------------------------------------------------------------------------
(* p-values *)

\* The rows in which both columns hold a value
BothPresent(a, b) ==
    PosWhere([i \in 1..Len(a.vals) |-> a.vals[i].k # "nan" /\ b.vals[i].k # "nan"])

\* The p-value of the edge is one of two sequences of one length, the values
\* of its two columns in the rows in which both hold one
PValueOfSameRows(t, e) ==
    \E lib \in Libs :
        e.p_value = PValueOf(Take(ColByName(t, e.column1).vals,
                                  BothPresent(ColByName(t, e.column1), ColByName(t, e.column2))),
                             Take(ColByName(t, e.column2).vals,
                                  BothPresent(ColByName(t, e.column1), ColByName(t, e.column2))),
                             "pearson", lib)

\* C28: the p-value of every emitted pair is computed from two sequences of
\* one length, taken from the same rows of both columns, so that a table with
\* two qualifying numeric columns, whatever the numbers of their missing
\* values, gets a full report whose correlation step did not fail.
C28_PValuesFromSameRows ==
    (pc = "analyzed" /\ df # None /\ Len(ValidCols(df)) >= 2) =>
        /\ IsFullReport(result)
        /\ "correlations" \in Keys(result.correlations)
        /\ \A k \in 1..Len(result.correlations.correlations) :
              PValueOfSameRows(df, result.correlations.correlations[k])

----------------------------------------------------------------------------
(* Every analysis ends *)

\* The status of the record with the given id, none while it is not created
StatusOf(id) ==
    IF id > Len(records) THEN "none" ELSE determine_status(RecordOf(records, id))

Ended(id) == StatusOf(id) \in {"completed", "failed"}

\* Every task that was added has finished, and no request is on its way to
\* add one
AllTasksFinished ==
    /\ \A t \in 1..Len(tasks) : tasks[t].at = "done"
    /\ \A r \in 1..Len(requests) : requests[r].at = "done"

\* C29: when the background tasks are run, every analysis that is pending
\* comes to the status completed or failed, and under no interleaving of
\* triggers and tasks is a record pending or running once every task that
\* was queued has finished.
C29_EveryAnalysisEnds ==
    /\ \A id \in 1..MaxRequests : (StatusOf(id) \in {"pending", "running"}) ~> Ended(id)
    /\ [](AllTasksFinished => \A id \in 1..Len(records) : Ended(id))

\* Two tasks have run on one record, which was reset while the first ran
C29_Witness ==
    /\ Len(tasks) = 2
    /\ AllTasksFinished
    /\ tasks[1].eda_id = tasks[2].eda_id
    /\ requests[2].loaded # None
    /\ requests[2].loaded.resultS3Key = "running"
    /\ Ended(1)

----------------------------------------------------------------------------
(* Triggering again *)

\* The step is the answer of a new request that found a record, not failed,
\* and was not told to analyse again
AnswersAtOnce ==
    /\ Len(requests') = Len(requests) + 1
    /\ requests'[Len(requests')].loaded # None
    /\ determine_status(requests'[Len(requests')].loaded) # "failed"
    /\ ~requests'[Len(requests')].force

\* Nothing is written or queued, and the status returned is the record's
LeftAsFound ==
    /\ records' = records
    /\ tasks' = tasks
    /\ requests'[Len(requests')].at = "done"
    /\ requests'[Len(requests')].response.message = "EDA already exists"
    /\ requests'[Len(requests')].response.status =
           determine_status(RecordOf(records', requests'[Len(requests')].loaded.id))

\* The step is the commit of the request r, which found a record
Resets(r) ==
    /\ r <= Len(requests)
    /\ requests[r].at = "queried"
    /\ requests'[r].at = "done"
    /\ requests[r].loaded # None

\* The record the request r found is pending and holds no report
IsReset(r) ==
    /\ RecordOf(records', requests[r].loaded.id).resultS3Key = "pending"
    /\ RecordOf(records', requests[r].loaded.id).summaryJson = None

\* C30: trigger_eda_analysis without force_reanalyze on a version whose
\* record exists and is not failed leaves the record as it is, queues no task
\* and returns the record's status; a request commits only for a failed
\* record or with force_reanalyze, and its commit leaves the record pending
\* with the stored report cleared.
C30_TriggerKeepsOrResets ==
    [][/\ AnswersAtOnce => LeftAsFound
       /\ \A r \in 1..MaxRequests :
             Resets(r) =>
                 /\ requests[r].force \/ determine_status(requests[r].loaded) = "failed"
                 /\ IsReset(r)]_vars
=============================================================================
